---- MODULE Spec2Model ----
(***************************************************************************)
(* Model of the scene rendering pipeline of the CS-330 tabletop scene:     *)
(* SceneManager (texture registry, material registry, uniform dispatch,   *)
(* shadow-map set-up, depth pass, lit pass), the fragment shader and the   *)
(* OpenGL state these act on.                                              *)
(*                                                                         *)
(* Floats are fixed-point integers in units of 1e-5 (0.385f is 38500);     *)
(* angles are in the same units of degrees (90.0f is 9000000).             *)
(* GL object names are naturals, 0 being "no object".                      *)
(***************************************************************************)
EXTENDS Integers, Sequences, FiniteSets, TLC

----------------------------------------------------------------------------
(* Program constants (namespace SceneConstants and literals of the code).  *)

TABLE_SIZE == 16
SHADOW_MAP_SLOT == 15
SHADOW_MAP_SIZE == 1024

DESK_TEXTURE == "deskTexture"
LAPTOP_TEXTURE == "laptopTex"
SCREEN_TEXTURE == "screenTex"
MUG_TEXTURE == "mugTex"
HANDLE_TEXTURE == "handleTex"
FLOOR_TEXTURE == "floorTex"
WALL_TEXTURE == "wallTex"
LAMP_SHADE_TEXTURE == "lampShadeTex"
LAMP_BASE_TEXTURE == "lampBaseTex"

EMPTY_TAG == "/0"

\* The nine (tag, diagnostic) pairs of PrepareScene, in the order of its calls.
SceneTextures ==
    << DESK_TEXTURE, LAPTOP_TEXTURE, SCREEN_TEXTURE, MUG_TEXTURE, HANDLE_TEXTURE,
       FLOOR_TEXTURE, WALL_TEXTURE, LAMP_SHADE_TEXTURE, LAMP_BASE_TEXTURE >>

DESK_SCALE == << 3800000, 47500, 2375000 >>
DESK_POSITION == << 0, -50000, -500000 >>
DESK_ROTATION == << 0, 0, 0 >>

MUG_BODY_SCALE == << 57500, 172500, 57500 >>
MUG_BODY_POSITION == << 500000, 75000, -200000 >>
MUG_BODY_ROTATION == << 1500000, 2000000, 0 >>

MUG_HANDLE_SCALE == << 36225, 36225, 36225 >>
MUG_HANDLE_POSITION == << 550000, 150000, -200000 >>
MUG_HANDLE_ROTATION == << 0, 0, 9000000 >>

LAPTOP_BASE_SCALE == << 660000, 11000, 440000 >>
LAPTOP_BASE_POSITION == << 0, 88000, -55000 >>
LAPTOP_BASE_ROTATION == << 0, 0, 0 >>

LAPTOP_SCREEN_SCALE == << 660000, 330000, 11000 >>
LAPTOP_SCREEN_POSITION == << 0, 176000, -220000 >>
LAPTOP_SCREEN_ROTATION == << -4500000, 0, 0 >>

DISPLAY_PANEL_SCALE == << 605000, 308000, 5500 >>
DISPLAY_PANEL_POSITION == << 0, 176000, -214500 >>
DISPLAY_PANEL_ROTATION == << -4500000, 0, 0 >>

LAMP_BASE_SCALE == << 100000, 40000, 100000 >>
LAMP_BASE_POSITION == << -600000, 20000, 200000 >>
LAMP_BASE_ROTATION == << 0, 0, 0 >>

LAMP_SHADE_SCALE == << 140000, 120000, 140000 >>
LAMP_SHADE_POSITION == << -600000, 250000, 200000 >>
LAMP_SHADE_ROTATION == << 0, 0, 0 >>

LAMP_STEM_SCALE == << 12000, 280000, 12000 >>
LAMP_STEM_POSITION == << -600000, 50000, 200000 >>
LAMP_STEM_ROTATION == << 0, 0, 0 >>

FLOOR_SCALE == << 6240000, 13000, 3250000 >>
FLOOR_POSITION == << 0, -500000, -500000 >>
FLOOR_ROTATION == << 0, 0, 0 >>

WALL_SCALE == << 6240000, 2600000, 65000 >>
WALL_POSITION_OFFSET == << 0, 0, -2125000 >>
WALL_ROTATION == << 0, 0, 0 >>

KEY_WIDTH == 38500
KEY_HEIGHT == 11000
KEY_DEPTH == 33000
KEY_ROWS == 5
KEY_COLS == 12
KEY_SPACING == 5500
KEY_START_X == -231000
KEY_Y == 90200
KEY_START_Z == -110000
KEY_COLOR == << 15000, 15000, 15000 >>

METAL_AMBIENT_COLOR == << 30000, 30000, 30000 >>

DEFAULT_UV_SCALE == << 100000, 100000 >>
LAPTOP_UV_SCALE == << 200000, 200000 >>
WALL_UV_SCALE == << 200000, 200000 >>
FLOOR_UV_SCALE == << 400000, 400000 >>

FLOOR_Y == -500000
FLOOR_HEIGHT == 13000

\* Names the program gives to its two shader programs.
MAIN_PROGRAM == "main"
DEPTH_PROGRAM == "depth"
\* Program name 0: no program object.
NO_PROGRAM == "none"

----------------------------------------------------------------------------
(* Bounds of the model.                                                    *)

\* How many entries past the 16-entry table a run may write.
MaxOverflow == 2
\* How many texture objects a run may leave allocated outside the table.
MaxLeaked == 1
\* How many occupied slots may repeat the tag of an earlier slot.
MaxDuplicates == 1
\* How many of the nine scene files may fail to load in one PrepareScene.
MaxFailedLoads == 1

\* Tags a caller of CreateGLTexture may pass besides the scene's own.
ExtraTags ==
    << "tex01", "tex02", "tex03", "tex04", "tex05", "tex06", "tex07", "tex08",
       "tex09", "tex10", "tex11", "tex12", "tex13", "tex14", "tex15", "tex16",
       "tex17", "tex18", "tex19", "tex20", "tex21", "tex22" >>

\* A tag no call ever loads.
MISSING_TAG == "missingTex"

\* stbi_load's outcomes: 0 is "no image" (NULL), 1..4 the decoded channel count.
DecodeOutcomes == 0..4

----------------------------------------------------------------------------
VARIABLES
    m_textureIDs,       \* the 16-entry slot table: [0..15 -> [tag, ID]]
    m_loadedTextures,   \* number of occupied slots
    overflow,           \* memory past the table that slot writes have hit
    slotWrite,          \* index of the most recent slot write (-1: none yet)
    glTextures,         \* names of the texture objects that exist
    glActiveTexture,    \* the active texture unit
    glBoundTexture,     \* [unit -> texture bound to GL_TEXTURE_2D]
    glFramebuffers,     \* names of the framebuffer objects that exist
    glBoundFramebuffer, \* framebuffer bound to GL_FRAMEBUFFER
    fbComplete,         \* [framebuffer -> is it framebuffer-complete]
    m_shadowMapFBO,
    m_shadowMap,
    glViewport,         \* <<x, y, w, h>>
    glCullEnabled,
    glCullFace,
    glCurrentProgram,
    uniforms,           \* uniforms of the main shader program
    depthUniforms,      \* uniforms of the depth shader program
    m_objectMaterials,  \* the material list
    m_pDepthShaderManager, \* 0: nullptr, 1: the depth ShaderManager object
    depthProgram,       \* the depth ShaderManager's m_programID, whether that
                        \* program linked, and what LoadShaders returned
    loadedMeshes,       \* mesh kinds ShapeMeshes has loaded
    depthDraws,         \* mesh draws of the most recent depth pass
    litDraws,           \* mesh draws of the most recent lit pass
    diagnostics,        \* messages written to std::cerr
    console,            \* failure messages CreateGLTexture wrote to std::cout
    lightSpaceMatrix,   \* the frame's light-space matrix (0: none computed yet)
    m_isPerspectiveProjection,
    m_screenWidth,
    m_screenHeight,
    m_projectionMatrix, \* the matrix UpdateProjectionMatrix last computed
    bOrthographicProjection, \* ViewManager.cpp's projection toggle (keys P, O)
    cameraPosition,     \* g_pCamera->Position
    pc,                 \* position inside the running SceneManager method
    lastCall,           \* the SceneManager method most recently entered
    loadIdx,            \* PrepareScene: how many of the nine loads are done
    lastCreate,         \* arguments and result of the last CreateGLTexture
    loadOrder,          \* tags of the successful loads since the table was empty
    fs,                 \* fragment-shader evaluation: inputs and outputs
    call                \* the last recorded method call: its name, its
                        \* arguments or the state it was entered in, and
                        \* what it returned

vars ==
    << m_textureIDs, m_loadedTextures, overflow, slotWrite, glTextures,
       glActiveTexture, glBoundTexture, glFramebuffers, glBoundFramebuffer,
       fbComplete, m_shadowMapFBO, m_shadowMap, glViewport, glCullEnabled,
       glCullFace, glCurrentProgram, uniforms, depthUniforms, m_objectMaterials,
       m_pDepthShaderManager, depthProgram, loadedMeshes,
       depthDraws, litDraws, diagnostics, console, lightSpaceMatrix,
       m_isPerspectiveProjection, m_screenWidth, m_screenHeight,
       m_projectionMatrix, bOrthographicProjection, cameraPosition,
       pc, lastCall, loadIdx, lastCreate, loadOrder, fs, call >>

registryVars == << m_textureIDs, m_loadedTextures, overflow, slotWrite, loadOrder >>
textureVars == << glTextures, glActiveTexture, glBoundTexture >>
fboVars == << glFramebuffers, glBoundFramebuffer, fbComplete, m_shadowMapFBO, m_shadowMap >>
rasterVars == << glViewport, glCullEnabled, glCullFace >>
shaderVars == << glCurrentProgram, uniforms, depthUniforms >>
drawVars == << depthDraws, litDraws >>
sceneVars == << m_objectMaterials, m_pDepthShaderManager, depthProgram, loadedMeshes >>
projectionVars ==
    << m_isPerspectiveProjection, m_screenWidth, m_screenHeight, m_projectionMatrix,
       bOrthographicProjection, cameraPosition >>

----------------------------------------------------------------------------
(* Texture registry.                                                       *)

EmptySlot == [tag |-> EMPTY_TAG, ID |-> -1]

\* What a read of memory past the table yields when something else owns it.
GarbageSlot == [tag |-> "?", ID |-> -1]

\* m_textureIDs[i]; an index past the table reads the memory behind it.
Slot(i) ==
    IF i < TABLE_SIZE THEN m_textureIDs[i] ELSE overflow[i - TABLE_SIZE + 1]

\* The while loop shared by FindTextureID and FindTextureSlot: the first
\* index in [index, m_loadedTextures) whose tag compares equal, else -1.
RECURSIVE ScanTable(_, _)
ScanTable(tag, index) ==
    IF index >= m_loadedTextures THEN -1
    ELSE IF Slot(index).tag = tag THEN index
    ELSE ScanTable(tag, index + 1)

FindTextureSlot(tag) == ScanTable(tag, 0)

FindTextureID(tag) ==
    LET index == ScanTable(tag, 0)
    IN  IF index = -1 THEN -1 ELSE Slot(index).ID

\* glGenTextures / glGenFramebuffers: an unused name (the smallest one).
NewName(used) ==
    CHOOSE n \in 1..(Cardinality(used) + 1) :
        n \notin used /\ \A m \in 1..(n - 1) : m \in used

Diag(msg, arg) == [msg |-> msg, arg |-> arg]

\* The slot store of CreateGLTexture (lines 291-293).  A store at an index
\* past the table is undefined behaviour: the memory hit may keep the entry
\* or belong to something that overwrites it.
StoreSlot(textureID, tag) ==
    /\ slotWrite' = m_loadedTextures
    /\ IF m_loadedTextures < TABLE_SIZE
       THEN /\ m_textureIDs' =
                   [m_textureIDs EXCEPT ![m_loadedTextures] = [tag |-> tag, ID |-> textureID]]
            /\ overflow' = overflow
       ELSE /\ m_textureIDs' = m_textureIDs
            /\ \E kept \in {[tag |-> tag, ID |-> textureID], GarbageSlot} :
                   overflow' = Append(overflow, kept)
    /\ m_loadedTextures' = m_loadedTextures + 1
    /\ loadOrder' = Append(loadOrder, tag)

\* A variant that stores the slot before it looks at the channel count.
UnsupportedFormatAfterStore(textureID, tag) ==
    /\ glBoundTexture' = [glBoundTexture EXCEPT ![glActiveTexture] = textureID]
    /\ console' = console \cup {Diag("Unsupported image format", "channels")}
    /\ StoreSlot(textureID, tag)

\* CreateGLTexture with an unsupported channel count frees the image and
\* returns false before the slot store; the generated texture stays bound.
UnsupportedFormat(textureID, tag) ==
    /\ glBoundTexture' = [glBoundTexture EXCEPT ![glActiveTexture] = textureID]
    /\ console' = console \cup {Diag("Unsupported image format", "channels")}
    /\ UNCHANGED registryVars

\* bool CreateGLTexture(filename, tag), with stbi_load's outcome as input.
CreateGLTexture(channels, tag) ==
    /\ glActiveTexture' = glActiveTexture
    /\ IF channels = 0
       THEN /\ console' = console \cup {Diag("Failed to load image", "filename")}
            /\ lastCreate' = [tag |-> tag, channels |-> channels, result |-> FALSE]
            /\ UNCHANGED << registryVars, glTextures, glBoundTexture >>
       ELSE LET textureID == NewName(glTextures)
            IN  /\ glTextures' = glTextures \cup {textureID}
                /\ IF channels \in {3, 4}
                   THEN /\ StoreSlot(textureID, tag)
                        /\ glBoundTexture' = [glBoundTexture EXCEPT ![glActiveTexture] = 0]
                        /\ console' = console
                        /\ lastCreate' = [tag |-> tag, channels |-> channels, result |-> TRUE]
                   ELSE /\ UnsupportedFormat(textureID, tag)
                        /\ lastCreate' = [tag |-> tag, channels |-> channels, result |-> FALSE]

\* void BindGLTextures(): unit i gets slot i's texture, i = 0 .. N-1.
BindGLTextures ==
    /\ glBoundTexture' =
           [u \in DOMAIN glBoundTexture |->
               IF u < m_loadedTextures THEN Slot(u).ID ELSE glBoundTexture[u]]
    /\ glActiveTexture' =
           IF m_loadedTextures > 0 THEN m_loadedTextures - 1 ELSE glActiveTexture

OccupiedIDs == {Slot(i).ID : i \in 0..(m_loadedTextures - 1)}

\* void DestroyGLTextures(): deletes every occupied slot's texture (a deleted
\* texture leaves the units it was bound to) and empties the table.
DestroyGLTextures ==
    /\ glTextures' = glTextures \ OccupiedIDs
    /\ glBoundTexture' =
           [u \in DOMAIN glBoundTexture |->
               IF glBoundTexture[u] \in OccupiedIDs THEN 0 ELSE glBoundTexture[u]]
    /\ m_textureIDs' =
           [i \in DOMAIN m_textureIDs |->
               IF i < m_loadedTextures THEN EmptySlot ELSE m_textureIDs[i]]
    /\ m_loadedTextures' = 0
    /\ overflow' = << >>
    /\ loadOrder' = << >>
    /\ UNCHANGED << slotWrite, glActiveTexture >>

----------------------------------------------------------------------------
(* Matrices, kept symbolic: a matrix is the sequence of the factors of a   *)
(* product, left to right.                                                 *)

Translate(v) == << << "translate", v >> >>
Rotate(degrees, axis) == << << "rotate", << degrees >> \o axis >> >>
ScaleMatrix(v) == << << "scale", v >> >>
ZeroMatrix == << << "zero", << >> >> >>
IdentityMatrix == << >>

\* glm::perspective(fovy, aspect, near, far) and glm::ortho(left, right,
\* bottom, top, near, far), by their arguments.
Perspective(fovy, aspect, near, far) == << << "perspective", << fovy, aspect, near, far >> >> >>
Ortho(left, right, bottom, top, near, far) ==
    << << "ortho", << left, right, bottom, top, near, far >> >> >>

\* The product built by SetTransformations (lines 454-461).
TransformationsMatrix(scaleXYZ, Xrot, Yrot, Zrot, positionXYZ) ==
    LET scale == ScaleMatrix(scaleXYZ)
        rotationX == Rotate(Xrot, << 1, 0, 0 >>)
        rotationY == Rotate(Yrot, << 0, 1, 0 >>)
        rotationZ == Rotate(Zrot, << 0, 0, 1 >>)
        translation == Translate(positionXYZ)
    IN  translation \o rotationX \o rotationY \o rotationZ \o scale

\* A variant of the product with the scale applied last.
ModelMatrixScaleLast(scaleXYZ, Xrot, Yrot, Zrot, positionXYZ) ==
    LET scale == ScaleMatrix(scaleXYZ)
        rotX == Rotate(Xrot, << 1, 0, 0 >>)
        rotY == Rotate(Yrot, << 0, 1, 0 >>)
        rotZ == Rotate(Zrot, << 0, 0, 1 >>)
        translation == Translate(positionXYZ)
    IN  scale \o translation \o rotX \o rotY \o rotZ

\* The product built by SetModelMatrix (lines 634-641).
ModelMatrix(scaleXYZ, Xrot, Yrot, Zrot, positionXYZ) ==
    LET scale == ScaleMatrix(scaleXYZ)
        rotX == Rotate(Xrot, << 1, 0, 0 >>)
        rotY == Rotate(Yrot, << 0, 1, 0 >>)
        rotZ == Rotate(Zrot, << 0, 0, 1 >>)
        translation == Translate(positionXYZ)
    IN  translation \o rotX \o rotY \o rotZ \o scale

----------------------------------------------------------------------------
(* Materials.                                                              *)

DRAMATIC_AMBIENT_STRENGTH == 5000
METAL_AMBIENT_STRENGTH == 3000
STANDARD_AMBIENT_STRENGTH == 5000
WOOD_SHININESS == 3200000
CERAMIC_SHININESS == 12800000
METAL_SHININESS == 25600000
STONE_SHININESS == 6400000

WOOD_AMBIENT_COLOR == << 100000, 90000, 70000 >>
WOOD_DIFFUSE_COLOR == << 100000, 90000, 60000 >>
WOOD_SPECULAR_COLOR == << 50000, 50000, 50000 >>
CERAMIC_AMBIENT_COLOR == << 90000, 90000, 100000 >>
CERAMIC_DIFFUSE_COLOR == << 80000, 80000, 90000 >>
CERAMIC_SPECULAR_COLOR == << 100000, 100000, 100000 >>
METAL_DIFFUSE_COLOR == << 40000, 40000, 40000 >>
METAL_SPECULAR_COLOR == << 70000, 70000, 70000 >>
STONE_AMBIENT_COLOR == << 30000, 30000, 30000 >>
STONE_DIFFUSE_COLOR == << 60000, 60000, 60000 >>
STONE_SPECULAR_COLOR == << 30000, 30000, 30000 >>
DEFAULT_COLOR == << 100000, 100000, 100000 >>

Material(ambientColor, ambientStrength, diffuseColor, specularColor, shininess) ==
    [ambientColor |-> ambientColor, ambientStrength |-> ambientStrength,
     diffuseColor |-> diffuseColor, specularColor |-> specularColor,
     shininess |-> shininess]

ZeroMaterial == Material(<< 0, 0, 0 >>, 0, << 0, 0, 0 >>, << 0, 0, 0 >>, 0)

Tagged(tag, material) == [tag |-> tag, material |-> material]

\* The seven materials PrepareScene pushes (lines 696-759), in push order.
SceneMaterials ==
    << Tagged(DESK_TEXTURE, Material(WOOD_AMBIENT_COLOR, 30000, WOOD_DIFFUSE_COLOR,
                                     WOOD_SPECULAR_COLOR, WOOD_SHININESS)),
       Tagged(LAPTOP_TEXTURE, Material(METAL_AMBIENT_COLOR, 20000, METAL_DIFFUSE_COLOR,
                                       METAL_SPECULAR_COLOR, METAL_SHININESS)),
       Tagged(MUG_TEXTURE, Material(CERAMIC_AMBIENT_COLOR, 30000, CERAMIC_DIFFUSE_COLOR,
                                    << 80000, 80000, 80000 >>, CERAMIC_SHININESS)),
       Tagged(FLOOR_TEXTURE, Material(STONE_AMBIENT_COLOR, 20000, STONE_DIFFUSE_COLOR,
                                      STONE_SPECULAR_COLOR, STONE_SHININESS)),
       Tagged(WALL_TEXTURE, Material(STONE_AMBIENT_COLOR, 20000, STONE_DIFFUSE_COLOR,
                                     STONE_SPECULAR_COLOR, STONE_SHININESS)),
       Tagged(LAMP_SHADE_TEXTURE, Material(<< 100000, 80000, 40000 >>, 30000,
                                           << 90000, 70000, 30000 >>,
                                           << 100000, 90000, 60000 >>, METAL_SHININESS)),
       Tagged(LAMP_BASE_TEXTURE, Material(METAL_AMBIENT_COLOR, 20000, METAL_DIFFUSE_COLOR,
                                          METAL_SPECULAR_COLOR, METAL_SHININESS)) >>

\* The tags SetShaderMaterial's case table knows (lines 549-611).
KnownMaterialTags ==
    {DESK_TEXTURE, MUG_TEXTURE, LAPTOP_TEXTURE, FLOOR_TEXTURE, WALL_TEXTURE,
     LAMP_SHADE_TEXTURE, LAMP_BASE_TEXTURE}

\* The case table of SetShaderMaterial (lines 549-620): tag -> five uniforms.
ShaderMaterialFor(materialTag) ==
    IF materialTag = DESK_TEXTURE
    THEN Material(WOOD_AMBIENT_COLOR, DRAMATIC_AMBIENT_STRENGTH, WOOD_DIFFUSE_COLOR,
                  WOOD_SPECULAR_COLOR, WOOD_SHININESS)
    ELSE IF materialTag = MUG_TEXTURE
    THEN Material(CERAMIC_AMBIENT_COLOR, DRAMATIC_AMBIENT_STRENGTH, CERAMIC_DIFFUSE_COLOR,
                  CERAMIC_SPECULAR_COLOR, CERAMIC_SHININESS)
    ELSE IF materialTag = LAPTOP_TEXTURE
    THEN Material(METAL_AMBIENT_COLOR, METAL_AMBIENT_STRENGTH, METAL_DIFFUSE_COLOR,
                  METAL_SPECULAR_COLOR, METAL_SHININESS)
    ELSE IF materialTag = FLOOR_TEXTURE
    THEN Material(STONE_AMBIENT_COLOR, METAL_AMBIENT_STRENGTH, STONE_DIFFUSE_COLOR,
                  STONE_SPECULAR_COLOR, STONE_SHININESS)
    ELSE IF materialTag = WALL_TEXTURE
    THEN Material(STONE_AMBIENT_COLOR, METAL_AMBIENT_STRENGTH, STONE_DIFFUSE_COLOR,
                  STONE_SPECULAR_COLOR, STONE_SHININESS)
    ELSE IF materialTag = LAMP_SHADE_TEXTURE
    THEN Material(<< 100000, 80000, 40000 >>, 30000, << 90000, 70000, 30000 >>,
                  << 100000, 90000, 60000 >>, METAL_SHININESS)
    ELSE IF materialTag = LAMP_BASE_TEXTURE
    THEN Material(METAL_AMBIENT_COLOR, METAL_AMBIENT_STRENGTH, METAL_DIFFUSE_COLOR,
                  METAL_SPECULAR_COLOR, METAL_SHININESS)
    ELSE Material(DEFAULT_COLOR, STANDARD_AMBIENT_STRENGTH, DEFAULT_COLOR,
                  DEFAULT_COLOR, WOOD_SHININESS)

\* A variant of the scan that stops at the last entry with the tag.
ScanMaterialsLastMatch(tag, index) ==
    LET matches == {i \in index..(Len(m_objectMaterials) - 1) :
                       m_objectMaterials[i + 1].tag = tag}
    IN  IF matches = {} THEN Len(m_objectMaterials)
        ELSE CHOOSE i \in matches : \A j \in matches : j <= i

\* FindMaterial's while loop (lines 410-426): the index, from index on, of
\* the first entry with the tag, or the size of the list.
RECURSIVE ScanMaterials(_, _)
ScanMaterials(tag, index) ==
    IF index < Len(m_objectMaterials) /\ m_objectMaterials[index + 1].tag # tag
    THEN ScanMaterials(tag, index + 1)
    ELSE index

\* bool FindMaterial(tag, material&): what it returns and what the caller's
\* material holds afterwards.
FindMaterial(tag, material) ==
    IF Len(m_objectMaterials) = 0
    THEN [result |-> FALSE, material |-> material]
    ELSE LET index == ScanMaterials(tag, 0)
         IN  [result |-> TRUE,
              material |-> IF index < Len(m_objectMaterials)
                           THEN m_objectMaterials[index + 1].material
                           ELSE material]

----------------------------------------------------------------------------
(* Uniform dispatch.  The methods below act on the part R of the state a   *)
(* render pass changes: texture units, the two programs' uniforms, and the *)
(* mesh draws issued so far.                                               *)

RenderState ==
    [active |-> glActiveTexture, bound |-> glBoundTexture,
     program |-> glCurrentProgram, u |-> uniforms, du |-> depthUniforms,
     draws |-> << >>, snaps |-> << >>]

\* ShaderManager's typed setters, on the main and on the depth program.
SetValue(R, name, value) == [R EXCEPT !.u = [@ EXCEPT ![name] = value]]
SetDepthValue(R, name, value) ==
    IF depthProgram.linked THEN [R EXCEPT !.du = [@ EXCEPT ![name] = value]] ELSE R

SetTransformations(R, scaleXYZ, Xrot, Yrot, Zrot, positionXYZ) ==
    SetValue(R, "model", TransformationsMatrix(scaleXYZ, Xrot, Yrot, Zrot, positionXYZ))

SetModelMatrix(R, scaleXYZ, Xrot, Yrot, Zrot, positionXYZ) ==
    LET model == ModelMatrix(scaleXYZ, Xrot, Yrot, Zrot, positionXYZ)
        R1 == SetValue(R, "model", model)
    IN  IF m_pDepthShaderManager # 0 THEN SetDepthValue(R1, "model", model) ELSE R1

SetShaderColor(R, red, green, blue, alpha) ==
    SetValue(SetValue(R, "bUseTexture", FALSE), "objectColor", << red, green, blue, alpha >>)

SetShaderTexture(R, textureTag) ==
    LET R1 == SetValue(R, "bUseTexture", TRUE)
        slot == FindTextureSlot(textureTag)
    IN  IF slot >= 0
        THEN SetValue([R1 EXCEPT !.active = slot, !.bound[slot] = Slot(slot).ID],
                      "objectTexture", slot)
        ELSE R1

SetTextureUVScale(R, u, v) == SetValue(R, "UVscale", << u, v >>)

\* A variant that uploads nothing for a tag outside the case table.
SetShaderMaterialSkipsUnknown(R, materialTag) ==
    IF materialTag \in KnownMaterialTags
    THEN SetValue(R, "material", ShaderMaterialFor(materialTag))
    ELSE R

SetShaderMaterial(R, materialTag) == SetValue(R, "material", ShaderMaterialFor(materialTag))

\* m_basicMeshes->Draw<Kind>Mesh(): a draw with the program in use.
\* The draw call of a mesh: the mesh is drawn with the model matrix of the
\* current program.  snaps keeps, per draw, the uniforms in effect that the
\* Draw helpers own and the texture the content sampler selects.  Left out
\* are the caller's per-frame inputs (the light-space matrix and the
\* camera's view, projection and position) and the light array, which no
\* statement between the draws writes: the pass records it once.
DrawMesh(R, mesh) ==
    [R EXCEPT !.draws =
        Append(@, [mesh |-> mesh,
                   model |-> IF R.program = DEPTH_PROGRAM THEN R.du.model ELSE R.u.model]),
              !.snaps =
        Append(@, [u |-> [R.u EXCEPT !.lightSpaceMatrix = 0, !.view = ZeroMatrix,
                                      !.projection = ZeroMatrix,
                                      !.viewPosition = << 0, 0, 0 >>,
                                      !.lightSources = << >>],
                   texture |-> R.bound[R.u.objectTexture]])]

\* One statement of a render pass, as data.
Apply(R, op) ==
    CASE op[1] = "SetModelMatrix" -> SetModelMatrix(R, op[2], op[3][1], op[3][2], op[3][3], op[4])
      [] op[1] = "SetTransformations" ->
             SetTransformations(R, op[2], op[3][1], op[3][2], op[3][3], op[4])
      [] op[1] = "SetShaderColor" -> SetShaderColor(R, op[2][1], op[2][2], op[2][3], op[3])
      [] op[1] = "SetShaderTexture" -> SetShaderTexture(R, op[2])
      [] op[1] = "SetTextureUVScale" -> SetTextureUVScale(R, op[2][1], op[2][2])
      [] op[1] = "SetShaderMaterial" -> SetShaderMaterial(R, op[2])
      [] op[1] = "bUseLighting" -> SetValue(R, "bUseLighting", op[2])
      [] op[1] = "Draw" -> DrawMesh(R, op[2])

\* The statements ops[lo..hi] executed in order on R.  The range is split in
\* halves; the first half's result is a bound value (left) before the second
\* half starts, which bounds the depth of the evaluation.
RECURSIVE RunRange(_, _, _, _)
RunRange(R, ops, lo, hi) ==
    IF lo > hi THEN R
    ELSE IF lo = hi THEN Apply(R, ops[lo])
    ELSE LET mid == (lo + hi) \div 2
         IN  CHOOSE result \in {RunRange(left, ops, mid + 1, hi) :
                                   left \in {RunRange(R, ops, lo, mid)}} : TRUE

Run(R, ops) == RunRange(R, ops, 1, Len(ops))

----------------------------------------------------------------------------
(* The fixed scene, as the statements of the two passes.                   *)

KeyRow(k) == (k - 1) \div KEY_COLS
KeyCol(k) == (k - 1) % KEY_COLS
KeyScale == << KEY_WIDTH, KEY_HEIGHT, KEY_DEPTH >>
NO_ROTATION == << 0, 0, 0 >>

\* A variant of the key grid that steps the columns by the key's depth.
KeyPositionDepthPitch(r, c) ==
    << KEY_START_X + c * (KEY_DEPTH + KEY_SPACING),
       KEY_Y,
       KEY_START_Z + r * (KEY_DEPTH + KEY_SPACING) >>

\* x, y, z of the key in row r and column c (lines 1020-1022, 1234-1236).
KeyPosition(r, c) ==
    << KEY_START_X + c * (KEY_WIDTH + KEY_SPACING),
       KEY_Y,
       KEY_START_Z + r * (KEY_DEPTH + KEY_SPACING) >>

\* A variant of the depth pass's wall that forgets the floor's thickness.
DepthWallPositionOnFloorPlane ==
    LET wallY == FLOOR_Y + (WALL_SCALE[2] \div 2)
    IN  << WALL_POSITION_OFFSET[1], wallY, WALL_POSITION_OFFSET[3] >>

\* RenderDepthPass: wallY and wallPosition (lines 1037-1038).
DepthWallPosition ==
    LET wallY == FLOOR_Y + (FLOOR_HEIGHT \div 2) + (WALL_SCALE[2] \div 2)
    IN  << WALL_POSITION_OFFSET[1], wallY, WALL_POSITION_OFFSET[3] >>

DepthKeys ==
    [i \in 1..(2 * KEY_ROWS * KEY_COLS) |->
        LET k == (i + 1) \div 2
        IN  IF i % 2 = 1
            THEN << "SetModelMatrix", KeyScale, NO_ROTATION, KeyPosition(KeyRow(k), KeyCol(k)) >>
            ELSE << "Draw", "box" >>]

\* The body of RenderDepthPass between its set-up and its restore (961-1042).
DepthPassOps ==
    << << "SetModelMatrix", DESK_SCALE, DESK_ROTATION, DESK_POSITION >>,
       << "Draw", "box" >>,
       << "SetModelMatrix", MUG_BODY_SCALE, MUG_BODY_ROTATION, MUG_BODY_POSITION >>,
       << "Draw", "cylinder" >>,
       << "SetModelMatrix", MUG_HANDLE_SCALE, MUG_HANDLE_ROTATION, MUG_HANDLE_POSITION >>,
       << "Draw", "torus" >>,
       << "SetModelMatrix", LAMP_BASE_SCALE, LAMP_BASE_ROTATION, LAMP_BASE_POSITION >>,
       << "Draw", "cylinder" >>,
       << "SetModelMatrix", LAMP_STEM_SCALE, LAMP_STEM_ROTATION, LAMP_STEM_POSITION >>,
       << "Draw", "cylinder" >>,
       << "SetModelMatrix", LAMP_SHADE_SCALE, LAMP_SHADE_ROTATION, LAMP_SHADE_POSITION >>,
       << "Draw", "cone" >>,
       << "SetModelMatrix", LAPTOP_BASE_SCALE, LAPTOP_BASE_ROTATION, LAPTOP_BASE_POSITION >>,
       << "Draw", "box" >>,
       << "SetModelMatrix", LAPTOP_SCREEN_SCALE, LAPTOP_SCREEN_ROTATION, LAPTOP_SCREEN_POSITION >>,
       << "Draw", "box" >>,
       << "SetModelMatrix", DISPLAY_PANEL_SCALE, DISPLAY_PANEL_ROTATION, DISPLAY_PANEL_POSITION >>,
       << "Draw", "box" >> >>
    \o DepthKeys \o
    << << "SetModelMatrix", FLOOR_SCALE, FLOOR_ROTATION, FLOOR_POSITION >>,
       << "Draw", "box" >>,
       << "SetModelMatrix", WALL_SCALE, WALL_ROTATION, DepthWallPosition >>,
       << "Draw", "box" >> >>

DrawDeskSurface ==
    << << "SetShaderTexture", DESK_TEXTURE >>,
       << "SetTextureUVScale", DEFAULT_UV_SCALE >>,
       << "SetShaderMaterial", DESK_TEXTURE >>,
       << "bUseLighting", TRUE >>,
       << "SetTransformations", DESK_SCALE, DESK_ROTATION, DESK_POSITION >>,
       << "Draw", "box" >> >>

DrawCoffeeMug ==
    << << "SetShaderTexture", MUG_TEXTURE >>,
       << "SetTextureUVScale", DEFAULT_UV_SCALE >>,
       << "SetShaderMaterial", MUG_TEXTURE >>,
       << "bUseLighting", TRUE >>,
       << "SetTransformations", MUG_BODY_SCALE, MUG_BODY_ROTATION, MUG_BODY_POSITION >>,
       << "Draw", "cylinder" >>,
       << "SetShaderTexture", HANDLE_TEXTURE >>,
       << "SetTextureUVScale", DEFAULT_UV_SCALE >>,
       << "SetShaderMaterial", MUG_TEXTURE >>,
       << "SetTransformations", MUG_HANDLE_SCALE, MUG_HANDLE_ROTATION, MUG_HANDLE_POSITION >>,
       << "Draw", "torus" >> >>

LitKeys ==
    [i \in 1..(4 * KEY_ROWS * KEY_COLS) |->
        LET k == (i + 3) \div 4
        IN  CASE i % 4 = 1 ->
                   << "SetTransformations", KeyScale, NO_ROTATION,
                      KeyPosition(KeyRow(k), KeyCol(k)) >>
              [] i % 4 = 2 -> << "SetShaderColor", KEY_COLOR, 100000 >>
              [] i % 4 = 3 -> << "bUseLighting", TRUE >>
              [] i % 4 = 0 -> << "Draw", "box" >>]

DrawLaptop ==
    << << "SetShaderColor", METAL_AMBIENT_COLOR, 100000 >>,
       << "SetShaderTexture", LAPTOP_TEXTURE >>,
       << "SetTextureUVScale", LAPTOP_UV_SCALE >>,
       << "SetShaderMaterial", LAPTOP_TEXTURE >>,
       << "bUseLighting", TRUE >>,
       << "SetTransformations", LAPTOP_BASE_SCALE, LAPTOP_BASE_ROTATION, LAPTOP_BASE_POSITION >>,
       << "Draw", "box" >>,
       << "SetShaderTexture", LAPTOP_TEXTURE >>,
       << "SetShaderMaterial", LAPTOP_TEXTURE >>,
       << "SetTransformations", LAPTOP_SCREEN_SCALE, LAPTOP_SCREEN_ROTATION,
          LAPTOP_SCREEN_POSITION >>,
       << "Draw", "box" >>,
       << "SetShaderTexture", SCREEN_TEXTURE >>,
       << "SetTextureUVScale", DEFAULT_UV_SCALE >>,
       << "SetShaderMaterial", LAPTOP_TEXTURE >>,
       << "SetTransformations", DISPLAY_PANEL_SCALE, DISPLAY_PANEL_ROTATION,
          DISPLAY_PANEL_POSITION >>,
       << "Draw", "box" >> >>
    \o LitKeys

DrawDeskLamp ==
    << << "SetShaderTexture", LAMP_BASE_TEXTURE >>,
       << "SetTextureUVScale", DEFAULT_UV_SCALE >>,
       << "SetShaderMaterial", LAMP_BASE_TEXTURE >>,
       << "bUseLighting", TRUE >>,
       << "SetTransformations", LAMP_BASE_SCALE, LAMP_BASE_ROTATION, LAMP_BASE_POSITION >>,
       << "Draw", "cylinder" >>,
       << "SetTransformations", LAMP_STEM_SCALE, LAMP_STEM_ROTATION, LAMP_STEM_POSITION >>,
       << "Draw", "cylinder" >>,
       << "SetShaderTexture", LAMP_SHADE_TEXTURE >>,
       << "SetTextureUVScale", DEFAULT_UV_SCALE >>,
       << "SetShaderMaterial", LAMP_SHADE_TEXTURE >>,
       << "SetTransformations", LAMP_SHADE_SCALE, LAMP_SHADE_ROTATION, LAMP_SHADE_POSITION >>,
       << "Draw", "cone" >> >>

\* A variant of DrawFloor that uploads the transform before anything else.
DrawFloorTransformFirst ==
    << << "SetTransformations", FLOOR_SCALE, FLOOR_ROTATION, FLOOR_POSITION >>,
       << "SetShaderTexture", FLOOR_TEXTURE >>,
       << "SetTextureUVScale", FLOOR_UV_SCALE >>,
       << "bUseLighting", TRUE >>,
       << "SetShaderMaterial", FLOOR_TEXTURE >>,
       << "Draw", "box" >> >>

DrawFloor ==
    << << "SetShaderTexture", FLOOR_TEXTURE >>,
       << "SetTextureUVScale", FLOOR_UV_SCALE >>,
       << "bUseLighting", TRUE >>,
       << "SetTransformations", FLOOR_SCALE, FLOOR_ROTATION, FLOOR_POSITION >>,
       << "SetShaderMaterial", FLOOR_TEXTURE >>,
       << "Draw", "box" >> >>

\* DrawBackground computes the wall from its own literals (lines 1297-1311).
DrawBackground ==
    LET wallWidth == 6240000
        wallHeight == 2600000
        wallThickness == 65000
        wallDepth == -2125000
        wallY == FLOOR_Y + (FLOOR_HEIGHT \div 2) + (wallHeight \div 2)
    IN  << << "SetShaderTexture", WALL_TEXTURE >>,
           << "SetTextureUVScale", WALL_UV_SCALE >>,
           << "SetShaderMaterial", WALL_TEXTURE >>,
           << "bUseLighting", TRUE >>,
           << "SetTransformations", << wallWidth, wallHeight, wallThickness >>,
              WALL_ROTATION, << 0, wallY, wallDepth >> >>,
           << "Draw", "box" >> >>

\* The draw calls of RenderScene, in call order (lines 1098-1103).
LitPassOps ==
    DrawDeskSurface \o DrawCoffeeMug \o DrawLaptop \o DrawDeskLamp \o DrawFloor
    \o DrawBackground

----------------------------------------------------------------------------
(* Lights.                                                                 *)

\* g_pCamera->Position as the ViewManager constructor sets it.
VIEW_CAMERA_POSITION == << 400000, 800000, 1400000 >>

CAMERA_POSITION == << 0, 500000, 1500000 >>
DRAMATIC_LIGHT_POSITION == << 200000, 800000, -300000 >>
DRAMATIC_LIGHT_DIRECTION == << -30000, -100000, 40000 >>
BALANCED_LIGHT_POSITION == << 100000, 1200000, 200000 >>
BALANCED_LIGHT_DIRECTION == << -10000, -100000, -20000 >>
ACCENT_LIGHT_POSITION == << -500000, 600000, 800000 >>
ACCENT_LIGHT_AMBIENT == << 10000, 10000, 30000 >>
ACCENT_LIGHT_DIFFUSE == << 30000, 50000, 100000 >>
ACCENT_LIGHT_SPECULAR == << 50000, 70000, 100000 >>
DRAMATIC_LIGHT_INTENSITY == 2500000
BALANCED_AMBIENT_INTENSITY == 40000
BALANCED_DIFFUSE_INTENSITY == 800000
BALANCED_SPECULAR_INTENSITY == 500000
TIGHT_SPOTLIGHT_INNER == 1500000
TIGHT_SPOTLIGHT_OUTER == 2500000
BALANCED_SPOTLIGHT_INNER == 2500000
BALANCED_SPOTLIGHT_OUTER == 4500000

Vec3(x) == << x, x, x >>
Const(x) == << "const", x >>
CosDegrees(d) == << "cos", d >>
NormalizedDirection(v) == << "normalize", v >>

ZeroLight ==
    [position |-> Vec3(0), ambientColor |-> Vec3(0), diffuseColor |-> Vec3(0),
     specularColor |-> Vec3(0), focalStrength |-> 0, specularIntensity |-> 0,
     spotDirection |-> Const(Vec3(0)), cutoff |-> Const(0), outerCutoff |-> Const(0),
     constant |-> 0, linear |-> 0, quadratic |-> 0]

\* The uniforms PrepareScene uploads for its two lights (lines 791-859).
PreparedLights(old) ==
    [i \in DOMAIN old |->
        IF i = 0
        THEN [old[0] EXCEPT
                 !.position = BALANCED_LIGHT_POSITION,
                 !.ambientColor = Vec3(BALANCED_AMBIENT_INTENSITY),
                 !.diffuseColor = Vec3(BALANCED_DIFFUSE_INTENSITY),
                 !.specularColor = Vec3(BALANCED_SPECULAR_INTENSITY),
                 !.focalStrength = 6400000,
                 !.specularIntensity = 100000,
                 !.spotDirection = NormalizedDirection(BALANCED_LIGHT_DIRECTION),
                 !.cutoff = CosDegrees(BALANCED_SPOTLIGHT_INNER),
                 !.outerCutoff = CosDegrees(BALANCED_SPOTLIGHT_OUTER),
                 !.constant = 100000, !.linear = 0, !.quadratic = 0]
        ELSE IF i = 1
        THEN [old[1] EXCEPT
                 !.position = ACCENT_LIGHT_POSITION,
                 !.ambientColor = ACCENT_LIGHT_AMBIENT,
                 !.diffuseColor = ACCENT_LIGHT_DIFFUSE,
                 !.specularColor = ACCENT_LIGHT_SPECULAR,
                 !.focalStrength = 3200000,
                 !.specularIntensity = 80000,
                 !.constant = 100000, !.linear = 0, !.quadratic = 0]
        ELSE old[i]]

\* The uniforms RenderScene overrides every frame (lines 1071-1081).
DramaticLights(old) ==
    [i \in DOMAIN old |->
        IF i = 0
        THEN [old[0] EXCEPT
                 !.position = DRAMATIC_LIGHT_POSITION,
                 !.diffuseColor = Vec3(DRAMATIC_LIGHT_INTENSITY),
                 !.spotDirection = Const(DRAMATIC_LIGHT_DIRECTION),
                 !.cutoff = CosDegrees(TIGHT_SPOTLIGHT_INNER),
                 !.outerCutoff = CosDegrees(TIGHT_SPOTLIGHT_OUTER)]
        ELSE IF i = 1
        THEN [old[1] EXCEPT
                 !.position = ACCENT_LIGHT_POSITION,
                 !.ambientColor = ACCENT_LIGHT_AMBIENT,
                 !.diffuseColor = ACCENT_LIGHT_DIFFUSE,
                 !.specularColor = ACCENT_LIGHT_SPECULAR]
        ELSE old[i]]

----------------------------------------------------------------------------
(* Initial state: a constructed SceneManager on a fresh GL context whose   *)
(* main program has been loaded.                                           *)

\* How many light-space matrices a frame's light may yield.
MaxLightSpaceMatrix == 2
LightSpaceMatrices == 1..MaxLightSpaceMatrix

\* Texture units the model tracks: every unit a slot index can name.
TextureUnits == 0..(TABLE_SIZE + MaxOverflow)

MeshKinds == {"plane", "cylinder", "torus", "box", "cone"}

\* Uniforms of a freshly linked main program; LoadShaders sets the two flags.
InitialUniforms ==
    [bUseTexture |-> TRUE, bUseLighting |-> FALSE,
     objectColor |-> << 0, 0, 0, 0 >>, objectTexture |-> 0, UVscale |-> << 0, 0 >>,
     material |-> ZeroMaterial, model |-> ZeroMatrix, viewPosition |-> Vec3(0),
     lightSources |-> [i \in 0..7 |-> ZeroLight], numActiveLights |-> 0,
     lightSpaceMatrix |-> 0, shadowMap |-> 0, projection |-> ZeroMatrix,
     view |-> ZeroMatrix]

InitialDepthUniforms == [model |-> ZeroMatrix, lightSpaceMatrix |-> 0]

\* A ShaderManager that has loaded nothing.
NoProgram == [m_programID |-> NO_PROGRAM, linked |-> FALSE, returned |-> NO_PROGRAM]

\* No call has been recorded.
NoCall == [name |-> "none"]

\* No fragment is being shaded.
IdleFragment == [phase |-> "idle"]

InitProgram ==
    /\ m_textureIDs = [i \in 0..(TABLE_SIZE - 1) |-> EmptySlot]
    /\ m_loadedTextures = 0
    /\ overflow = << >>
    /\ slotWrite = -1
    /\ glTextures = {}
    /\ glActiveTexture = 0
    /\ glBoundTexture = [u \in TextureUnits |-> 0]
    /\ glFramebuffers = {}
    /\ glBoundFramebuffer = 0
    /\ fbComplete = (0 :> TRUE)
    /\ m_shadowMapFBO = 0
    /\ m_shadowMap = 0
    /\ glViewport = << 0, 0, 1000, 800 >>
    /\ glCullEnabled = FALSE
    /\ glCullFace = "GL_BACK"
    /\ glCurrentProgram = MAIN_PROGRAM
    /\ uniforms = InitialUniforms
    /\ depthUniforms = InitialDepthUniforms
    /\ m_objectMaterials = << >>
    /\ m_pDepthShaderManager = 0
    /\ depthProgram = NoProgram
    /\ loadedMeshes = {}
    /\ depthDraws = << >>
    /\ litDraws = << >>
    /\ diagnostics = {}
    /\ console = {}
    /\ lightSpaceMatrix = 0
    /\ m_isPerspectiveProjection = TRUE
    /\ m_screenWidth = 1000
    /\ m_screenHeight = 800
    /\ m_projectionMatrix = IdentityMatrix
    /\ bOrthographicProjection = FALSE
    /\ cameraPosition = VIEW_CAMERA_POSITION
    /\ pc = "idle"
    /\ lastCall = "none"
    /\ loadIdx = 0
    /\ lastCreate = [tag |-> EMPTY_TAG, channels |-> 0, result |-> FALSE]
    /\ loadOrder = << >>
    /\ call = NoCall

Init == InitProgram /\ fs = IdleFragment

----------------------------------------------------------------------------
(* PrepareScene, one action per block of the method.                       *)

\* What can happen to the two shader files of a LoadShaders call.
ShaderOutcomes ==
    {"ok", "vertexUnreadable", "fragmentUnreadable", "compileError", "linkError"}

\* The message LoadShaders writes for an outcome (lines 49, 80-82, 118).
ShaderMessage(outcome) ==
    IF outcome = "vertexUnreadable" THEN Diag("Impossible to open", "vertex_file_path")
    ELSE IF outcome = "compileError" THEN Diag("ERROR::SHADER_COMPILATION_ERROR", "VERTEX")
    ELSE Diag("program info log", "")

\* glUseProgram(program): an unlinked program raises GL_INVALID_OPERATION and
\* the current program stays.
UseProgram(program, linked) ==
    IF program = NO_PROGRAM \/ linked THEN program ELSE glCurrentProgram

\* GLuint ShaderManager::LoadShaders on the depth ShaderManager.  An
\* unreadable vertex file returns 0 before a program exists; every other
\* outcome creates the program, stores it in m_programID, calls glUseProgram
\* on it and returns it, whether or not it compiled and linked.
LoadShaders(outcome, program) ==
    /\ depthProgram' =
          IF outcome = "vertexUnreadable" THEN [depthProgram EXCEPT !.returned = NO_PROGRAM]
          ELSE [m_programID |-> program, linked |-> (outcome = "ok"),
                returned |-> program]
    /\ glCurrentProgram' =
          IF outcome = "vertexUnreadable" THEN glCurrentProgram
          ELSE UseProgram(program, outcome = "ok")
    /\ diagnostics' = IF outcome = "ok" THEN diagnostics
                      ELSE diagnostics \cup {ShaderMessage(outcome)}

\* Loads that failed so far in this PrepareScene: texture files and the
\* depth program.
FailedLoads ==
    (loadIdx - m_loadedTextures)
        + (IF m_pDepthShaderManager # 0 /\ ~depthProgram.linked THEN 1 ELSE 0)

\* Lines 663-673: the depth ShaderManager, its LoadShaders call, whose result
\* is dropped, and the five meshes.
PS_LoadShadersAndMeshes ==
    /\ pc = "PS_LoadShadersAndMeshes"
    /\ m_pDepthShaderManager' = 1
    /\ \E outcome \in ShaderOutcomes :
          /\ outcome = "ok" \/ MaxFailedLoads > 0
          /\ LoadShaders(outcome, DEPTH_PROGRAM)
          /\ IF outcome = "vertexUnreadable"
             THEN /\ pc' = "LS_getchar"
                  /\ UNCHANGED << loadedMeshes, loadIdx >>
             ELSE /\ loadedMeshes' = loadedMeshes \cup MeshKinds
                  /\ loadIdx' = 0
                  /\ pc' = "PS_LoadTextures"
    /\ UNCHANGED << registryVars, textureVars, fboVars, rasterVars, uniforms,
                    depthUniforms, m_objectMaterials, drawVars,
                    console, lightSpaceMatrix, projectionVars, lastCall,
                    lastCreate, fs, call >>

\* ShaderManager.cpp lines 50-51: after the "Impossible to open" message
\* LoadShaders calls getchar() and returns 0 only once a character (or the
\* end of the input) has arrived on standard input.  This step is that
\* arrival; PrepareScene then goes on with the meshes.
LS_Getchar ==
    /\ pc = "LS_getchar"
    /\ loadedMeshes' = loadedMeshes \cup MeshKinds
    /\ loadIdx' = 0
    /\ pc' = "PS_LoadTextures"
    /\ UNCHANGED << registryVars, textureVars, fboVars, rasterVars, shaderVars,
                    m_objectMaterials, m_pDepthShaderManager, depthProgram,
                    drawVars, diagnostics, console, lightSpaceMatrix,
                    projectionVars, lastCall, lastCreate, fs, call >>

FailedLoadMessage(tag) == Diag("Failed to load texture", tag)

\* A variant in which a failed load makes PrepareScene return at once.
PS_LoadTextureReturnsOnFailure ==
    /\ pc = "PS_LoadTextures"
    /\ loadIdx < Len(SceneTextures)
    /\ \E channels \in DecodeOutcomes :
          /\ channels \in {3, 4} \/ FailedLoads < MaxFailedLoads
          /\ CreateGLTexture(channels, SceneTextures[loadIdx + 1])
          /\ diagnostics' =
                IF channels \in {3, 4} THEN diagnostics
                ELSE diagnostics \cup {FailedLoadMessage(SceneTextures[loadIdx + 1])}
          /\ pc' = IF channels \notin {3, 4} THEN "idle"
                   ELSE IF loadIdx + 1 = Len(SceneTextures) THEN "PS_Materials"
                   ELSE pc
    /\ loadIdx' = loadIdx + 1
    /\ UNCHANGED << fboVars, rasterVars, shaderVars, sceneVars, drawVars,
                    lightSpaceMatrix, projectionVars, lastCall, fs, call >>

\* Lines 676-693: the next of the nine loads, with its failure message.
PS_LoadTexture ==
    /\ pc = "PS_LoadTextures"
    /\ loadIdx < Len(SceneTextures)
    /\ \E channels \in DecodeOutcomes :
          /\ channels \in {3, 4} \/ FailedLoads < MaxFailedLoads
          /\ CreateGLTexture(channels, SceneTextures[loadIdx + 1])
          /\ diagnostics' =
                IF channels \in {3, 4} THEN diagnostics
                ELSE diagnostics \cup {FailedLoadMessage(SceneTextures[loadIdx + 1])}
    /\ loadIdx' = loadIdx + 1
    /\ pc' = IF loadIdx + 1 = Len(SceneTextures) THEN "PS_Materials" ELSE pc
    /\ UNCHANGED << fboVars, rasterVars, shaderVars, sceneVars, drawVars,
                    lightSpaceMatrix, projectionVars, lastCall, fs, call >>

\* Lines 696-759: the seven materials are appended to the list.
PS_Materials ==
    /\ pc = "PS_Materials"
    /\ m_objectMaterials' = m_objectMaterials \o SceneMaterials
    /\ pc' = "PS_BindGLTextures"
    /\ UNCHANGED << registryVars, textureVars, fboVars, rasterVars, shaderVars,
                    m_pDepthShaderManager, depthProgram, loadedMeshes,
                    drawVars, diagnostics,
                    console, lightSpaceMatrix, projectionVars, lastCall, loadIdx,
                    lastCreate, fs, call >>

\* Line 762.
PS_BindGLTextures ==
    /\ pc = "PS_BindGLTextures"
    /\ BindGLTextures
    /\ pc' = "PS_Lights"
    /\ UNCHANGED << registryVars, glTextures, fboVars, rasterVars, shaderVars,
                    sceneVars, drawVars, diagnostics, console, lightSpaceMatrix,
                    projectionVars, lastCall, loadIdx, lastCreate, fs, call >>

\* Lines 765-862: the camera position and the two lights.
PS_Lights ==
    /\ pc = "PS_Lights"
    /\ uniforms' = [uniforms EXCEPT !.viewPosition = CAMERA_POSITION,
                                    !.lightSources = PreparedLights(@),
                                    !.numActiveLights = 2]
    /\ pc' = "PS_InitShadowMap"
    /\ UNCHANGED << registryVars, textureVars, fboVars, rasterVars,
                    glCurrentProgram, depthUniforms, sceneVars, drawVars,
                    diagnostics, console, lightSpaceMatrix, projectionVars,
                    lastCall, loadIdx, lastCreate, fs, call >>

\* A variant that creates the depth texture but no framebuffer.
InitShadowMapWithoutFramebuffer(complete) ==
    LET shadowMap == NewName(glTextures)
    IN  /\ m_shadowMap' = shadowMap
        /\ glTextures' = glTextures \cup {shadowMap}
        /\ glBoundTexture' = [glBoundTexture EXCEPT ![glActiveTexture] = shadowMap]
        /\ UNCHANGED << m_shadowMapFBO, glFramebuffers, fbComplete,
                        glBoundFramebuffer, glActiveTexture >>

\* void InitShadowMap(): a framebuffer and a depth texture are generated, the
\* texture is bound on the active unit and attached, and the default
\* framebuffer is bound again.  Whether the driver accepts the attachment
\* (complete) is the context's answer.
InitShadowMap(complete) ==
    LET fbo == NewName(glFramebuffers)
        shadowMap == NewName(glTextures)
    IN  /\ m_shadowMapFBO' = fbo
        /\ m_shadowMap' = shadowMap
        /\ glFramebuffers' = glFramebuffers \cup {fbo}
        /\ glTextures' = glTextures \cup {shadowMap}
        /\ glBoundTexture' = [glBoundTexture EXCEPT ![glActiveTexture] = shadowMap]
        /\ fbComplete' = (fbo :> complete) @@ fbComplete
        /\ glBoundFramebuffer' = 0
        /\ glActiveTexture' = glActiveTexture

\* Lines 868-888: the same statements, inline in PrepareScene.
PS_InitShadowMap ==
    /\ pc = "PS_InitShadowMap"
    /\ \E complete \in BOOLEAN : InitShadowMap(complete)
    /\ pc' = "PS_CheckFramebuffer"
    /\ UNCHANGED << registryVars, rasterVars, shaderVars, sceneVars, drawVars,
                    diagnostics, console, lightSpaceMatrix, projectionVars,
                    lastCall, loadIdx, lastCreate, fs, call >>

FramebufferMessage == Diag("ERROR: Shadow map framebuffer is not complete!", "")

\* glCheckFramebufferStatus(GL_FRAMEBUFFER): the status of the framebuffer
\* bound at the time of the call.
CheckFramebufferStatus == fbComplete[glBoundFramebuffer]

\* Lines 891-893: the completeness check; the method goes on either way.
PS_CheckFramebuffer ==
    /\ pc = "PS_CheckFramebuffer"
    /\ diagnostics' = IF CheckFramebufferStatus THEN diagnostics
                      ELSE diagnostics \cup {FramebufferMessage}
    /\ pc' = "PS_UpdateProjection"
    /\ UNCHANGED << registryVars, textureVars, fboVars, rasterVars, shaderVars,
                    sceneVars, drawVars, console, lightSpaceMatrix,
                    projectionVars, lastCall, loadIdx, lastCreate, fs, call >>

\* The matrix UpdateProjectionMatrix computes (lines 1407-1441) for a mode
\* and screen dimensions.
ProjectionMatrixFor(isPerspective, width, height) ==
    LET aspectRatio == (width * 100000) \div height
        fov == 4500000
        orthoSize == 2000000
        nearPlane == 10000
        farPlane == 10000000
    IN  IF isPerspective
        THEN Perspective(fov, aspectRatio, nearPlane, farPlane)
        ELSE Ortho(-(((orthoSize \div 1000) * aspectRatio) \div 100),
                   ((orthoSize \div 1000) * aspectRatio) \div 100,
                   -orthoSize, orthoSize, nearPlane, farPlane)

\* The same for the members as they are.
ProjectionMatrix ==
    ProjectionMatrixFor(m_isPerspectiveProjection, m_screenWidth, m_screenHeight)

\* Lines 896-899: UpdateProjectionMatrix, then PrepareScene returns.
PS_UpdateProjection ==
    /\ pc = "PS_UpdateProjection"
    /\ m_projectionMatrix' = ProjectionMatrix
    /\ uniforms' = [uniforms EXCEPT !.projection = ProjectionMatrix]
    /\ pc' = "idle"
    /\ UNCHANGED << registryVars, textureVars, fboVars, rasterVars,
                    glCurrentProgram, depthUniforms, sceneVars, drawVars,
                    diagnostics, console, lightSpaceMatrix,
                    m_isPerspectiveProjection, m_screenWidth, m_screenHeight,
                    bOrthographicProjection, cameraPosition,
                    lastCall, loadIdx, lastCreate, fs, call >>

----------------------------------------------------------------------------
(* The two render passes.                                                  *)

\* What a run of pass statements leaves in the GL and shader state.
Commit(R) ==
    /\ glActiveTexture' = R.active
    /\ glBoundTexture' = R.bound
    /\ uniforms' = R.u
    /\ depthUniforms' = R.du

\* RenderDepthPass, lines 946-956: viewport, shadow framebuffer, front-face
\* culling, the depth program and its light-space matrix.
RDP_Setup(matrix) ==
    /\ glViewport' = << 0, 0, SHADOW_MAP_SIZE, SHADOW_MAP_SIZE >>
    /\ glBoundFramebuffer' = m_shadowMapFBO
    /\ glCullEnabled' = TRUE
    /\ glCullFace' = "GL_FRONT"
    /\ glCurrentProgram' = UseProgram(depthProgram.m_programID, depthProgram.linked)
    /\ depthUniforms' = IF depthProgram.linked
                        THEN [depthUniforms EXCEPT !.lightSpaceMatrix = matrix]
                        ELSE depthUniforms

\* RenderDepthPass, lines 961-1042: every shadow caster is drawn.
RDP_Draw ==
    /\ pc = "RDP_Draw"
    /\ \E R \in {Run(RenderState, DepthPassOps)} :
          Commit(R) /\ depthDraws' = R.draws
    /\ pc' = "RDP_Restore"
    /\ UNCHANGED << registryVars, glTextures, fboVars, rasterVars, glCurrentProgram,
                    sceneVars, litDraws, diagnostics, console, lightSpaceMatrix,
                    projectionVars, lastCall, loadIdx, lastCreate, fs, call >>

\* A variant of the restore that leaves face culling enabled.
RDP_RestoreLeavesCulling ==
    /\ pc = "RDP_Restore"
    /\ glCullFace' = "GL_BACK"
    /\ glCullEnabled' = glCullEnabled
    /\ glBoundFramebuffer' = 0
    /\ pc' = "idle"
    /\ UNCHANGED << registryVars, textureVars, glFramebuffers, fbComplete,
                    m_shadowMapFBO, m_shadowMap, glViewport, shaderVars, sceneVars,
                    drawVars, diagnostics, console, lightSpaceMatrix,
                    projectionVars, lastCall, loadIdx, lastCreate, fs, call >>

\* RenderDepthPass, lines 1045-1047: back-face mode, culling off, default
\* framebuffer; the method returns.
RDP_Restore ==
    /\ pc = "RDP_Restore"
    /\ glCullFace' = "GL_BACK"
    /\ glCullEnabled' = FALSE
    /\ glBoundFramebuffer' = 0
    /\ pc' = "idle"
    /\ UNCHANGED << registryVars, textureVars, glFramebuffers, fbComplete,
                    m_shadowMapFBO, m_shadowMap, glViewport, shaderVars, sceneVars,
                    drawVars, diagnostics, console, lightSpaceMatrix,
                    projectionVars, lastCall, loadIdx, lastCreate, fs, call >>

\* RenderScene, lines 1062-1093: the main program, the light overrides, the
\* light-space matrix, and the shadow map on its unit.
RS_Setup(matrix) ==
    /\ glCurrentProgram' = MAIN_PROGRAM
    /\ uniforms' = [uniforms EXCEPT !.numActiveLights = 2,
                                    !.lightSources = DramaticLights(@),
                                    !.lightSpaceMatrix = matrix,
                                    !.shadowMap = SHADOW_MAP_SLOT]
    /\ glActiveTexture' = SHADOW_MAP_SLOT
    /\ glBoundTexture' = [glBoundTexture EXCEPT ![SHADOW_MAP_SLOT] = m_shadowMap]

\* RenderScene, lines 1098-1103: the six Draw helpers; the method returns.
RS_Draw ==
    /\ pc = "RS_Draw"
    /\ \E R \in {Run(RenderState, LitPassOps)} :
         LET snaps == [lightSources |-> uniforms.lightSources, draws |-> R.snaps]
         IN  /\ Commit(R)
             /\ litDraws' = R.draws
             /\ call' = [name |-> "RenderScene",
                         steps |-> [i \in DOMAIN LitPassOps |-> LitPassOps[i][1]],
                         snaps |-> snaps,
                         first |-> IF call.first = << >> THEN snaps ELSE call.first]
    /\ pc' = "idle"
    /\ UNCHANGED << registryVars, glTextures, fboVars, rasterVars, glCurrentProgram,
                    sceneVars, depthDraws, diagnostics, console, lightSpaceMatrix,
                    projectionVars, lastCall, loadIdx, lastCreate, fs >>

----------------------------------------------------------------------------
(* The application: PrepareScene once, then per frame the light-space      *)
(* matrix, the depth pass and the lit pass.                                *)

CallPrepareScene ==
    /\ pc = "idle"
    /\ lastCall = "none"
    /\ lastCall' = "PrepareScene"
    /\ pc' = "PS_LoadShadersAndMeshes"
    /\ UNCHANGED << registryVars, textureVars, fboVars, rasterVars, shaderVars,
                    sceneVars, drawVars, diagnostics, console, lightSpaceMatrix,
                    projectionVars, loadIdx, lastCreate, fs, call >>

CallRenderDepthPass ==
    /\ pc = "idle"
    /\ lastCall \in {"PrepareScene", "RenderScene"}
    /\ \E matrix \in LightSpaceMatrices :
          /\ lightSpaceMatrix' = matrix
          /\ RDP_Setup(matrix)
    /\ depthDraws' = << >>
    /\ litDraws' = << >>
    /\ lastCall' = "RenderDepthPass"
    /\ pc' = "RDP_Draw"
    /\ call' = [name |-> "RenderDepthPass", cullEnabled |-> glCullEnabled,
                viewport |-> glViewport,
                first |-> IF call.name = "RenderScene" THEN call.first ELSE << >>]
    /\ UNCHANGED << registryVars, textureVars, glFramebuffers, fbComplete,
                    m_shadowMapFBO, m_shadowMap, uniforms, sceneVars, diagnostics,
                    console, projectionVars, loadIdx, lastCreate, fs >>

CallRenderScene ==
    /\ pc = "idle"
    /\ lastCall = "RenderDepthPass"
    /\ RS_Setup(lightSpaceMatrix)
    /\ lastCall' = "RenderScene"
    /\ pc' = "RS_Draw"
    /\ UNCHANGED << registryVars, glTextures, fboVars, rasterVars, depthUniforms,
                    sceneVars, drawVars, diagnostics, console, lightSpaceMatrix,
                    projectionVars, loadIdx, lastCreate, fs, call >>

\* Teardown, first half: void SceneManager::DestroyGLTextures().
CallDestroyGLTextures ==
    /\ pc = "idle"
    /\ lastCall \in {"PrepareScene", "RenderScene"}
    /\ DestroyGLTextures
    /\ lastCall' = "DestroyGLTextures"
    /\ UNCHANGED << fboVars, rasterVars, shaderVars, sceneVars, drawVars,
                    diagnostics, console, lightSpaceMatrix, projectionVars, pc,
                    loadIdx, lastCreate, fs, call >>

\* Teardown, second half: SceneManager::~SceneManager() clears
\* m_pShaderManager and deletes m_basicMeshes, nothing else.
Destructor ==
    /\ pc = "idle"
    /\ lastCall = "DestroyGLTextures"
    /\ loadedMeshes' = {}
    /\ pc' = "destroyed"
    /\ UNCHANGED << registryVars, textureVars, fboVars, rasterVars, shaderVars,
                    m_objectMaterials, m_pDepthShaderManager, depthProgram,
                    drawVars, diagnostics, console, lightSpaceMatrix,
                    projectionVars, lastCall, loadIdx, lastCreate, fs, call >>

Next ==
    \/ CallPrepareScene
    \/ PS_LoadShadersAndMeshes
    \/ LS_Getchar
    \/ PS_LoadTexture
    \/ PS_Materials
    \/ PS_BindGLTextures
    \/ PS_Lights
    \/ PS_InitShadowMap
    \/ PS_CheckFramebuffer
    \/ PS_UpdateProjection
    \/ CallRenderDepthPass
    \/ RDP_Draw
    \/ RDP_Restore
    \/ CallRenderScene
    \/ RS_Draw

Spec == Init /\ [][Next]_vars

\* The application run with its teardown: DestroyGLTextures, then the
\* destructor.
NextTeardown ==
    \/ Next
    \/ CallDestroyGLTextures
    \/ Destructor

SpecTeardown == Init /\ [][NextTeardown]_vars

TypeOK ==
    /\ m_loadedTextures \in 0..(TABLE_SIZE + MaxOverflow)
    /\ pc \in {"idle", "crashed", "destroyed", "LS_getchar", "PS_LoadShadersAndMeshes", "PS_LoadTextures",
               "PS_Materials", "PS_BindGLTextures", "PS_Lights", "PS_InitShadowMap",
               "PS_CheckFramebuffer", "PS_UpdateProjection", "RDP_Draw",
               "RDP_Restore", "RS_Draw"}

----------------------------------------------------------------------------
(* The texture registry under arbitrary callers: CreateGLTexture and       *)
(* DestroyGLTextures in any order, with any decode outcome.                *)

AllTags == SceneTextures \o ExtraTags

OccupiedTags == {Slot(i).tag : i \in 0..(m_loadedTextures - 1)}

\* The first tag no occupied slot carries.
FreshTag ==
    AllTags[CHOOSE k \in 1..Len(AllTags) :
                /\ AllTags[k] \notin OccupiedTags
                /\ \A j \in 1..(k - 1) : AllTags[j] \in OccupiedTags]

\* Occupied slots that repeat the tag of another occupied slot.
Duplicates == m_loadedTextures - Cardinality(OccupiedTags)

\* Texture objects that exist and that no occupied slot refers to.
Leaked == glTextures \ OccupiedIDs

\* Tags a caller may pass: a new one, or, among its first loads, the one of
\* slot 0 once more.
CallerTags ==
    {FreshTag} \cup
    (IF m_loadedTextures \in 1..MaxDuplicates /\ Duplicates < MaxDuplicates
     THEN {Slot(0).tag} ELSE {})

\* A call of CreateGLTexture.  A store past the table may also end the
\* process.
ApiCreateGLTexture ==
    /\ pc = "idle"
    /\ \E channels \in DecodeOutcomes, tag \in CallerTags :
          /\ channels \in {3, 4} => m_loadedTextures < TABLE_SIZE + MaxOverflow
          /\ channels \in {1, 2} => Cardinality(Leaked) < MaxLeaked
          /\ CreateGLTexture(channels, tag)
          /\ pc' \in IF channels \in {3, 4} /\ m_loadedTextures >= TABLE_SIZE
                     THEN {"idle", "crashed"} ELSE {"idle"}
    /\ lastCall' = "CreateGLTexture"
    /\ UNCHANGED << fboVars, rasterVars, shaderVars, sceneVars, drawVars,
                    diagnostics, lightSpaceMatrix, projectionVars, loadIdx, fs, call >>

\* A call of DestroyGLTextures.
ApiDestroyGLTextures ==
    /\ pc = "idle"
    /\ m_loadedTextures > 0
    /\ Cardinality(Leaked) < MaxLeaked
    /\ DestroyGLTextures
    /\ lastCall' = "DestroyGLTextures"
    /\ UNCHANGED << fboVars, rasterVars, shaderVars, sceneVars, drawVars,
                    diagnostics, console, lightSpaceMatrix, projectionVars, pc,
                    loadIdx, lastCreate, fs, call >>

NextRegistry ==
    \/ ApiCreateGLTexture
    \/ ApiDestroyGLTextures

SpecRegistry == Init /\ [][NextRegistry]_vars

----------------------------------------------------------------------------
(* Texture units under any number of content textures: 0 to 16 loads, then *)
(* BindGLTextures, InitShadowMap, and lit passes whose Draw helpers select *)
(* content textures.                                                       *)

UnitsCreateGLTexture ==
    /\ pc = "idle"
    /\ lastCall \in {"none", "CreateGLTexture"}
    /\ m_loadedTextures < TABLE_SIZE
    /\ \E channels \in {3, 4} : CreateGLTexture(channels, FreshTag)
    /\ lastCall' = "CreateGLTexture"
    /\ UNCHANGED << fboVars, rasterVars, shaderVars, sceneVars, drawVars,
                    diagnostics, lightSpaceMatrix, projectionVars, pc, loadIdx, fs, call >>

UnitsBindGLTextures ==
    /\ pc = "idle"
    /\ lastCall \in {"none", "CreateGLTexture"}
    /\ BindGLTextures
    /\ lastCall' = "BindGLTextures"
    /\ UNCHANGED << registryVars, glTextures, fboVars, rasterVars, shaderVars,
                    sceneVars, drawVars, diagnostics, console, lightSpaceMatrix,
                    projectionVars, pc, loadIdx, lastCreate, fs, call >>

UnitsInitShadowMap ==
    /\ pc = "idle"
    /\ lastCall = "BindGLTextures"
    /\ \E complete \in BOOLEAN : InitShadowMap(complete)
    /\ lastCall' = "InitShadowMap"
    /\ UNCHANGED << registryVars, rasterVars, shaderVars, sceneVars, drawVars,
                    diagnostics, console, lightSpaceMatrix, projectionVars, pc,
                    loadIdx, lastCreate, fs, call >>

\* RenderScene is entered: its set-up up to the shadow-map binding.
UnitsRenderScene ==
    /\ pc = "idle"
    /\ lastCall \in {"InitShadowMap", "RenderScene"}
    /\ \E matrix \in LightSpaceMatrices :
          /\ lightSpaceMatrix' = matrix
          /\ RS_Setup(matrix)
    /\ lastCall' = "RenderScene"
    /\ pc' = "RS_Draw"
    /\ UNCHANGED << registryVars, glTextures, fboVars, rasterVars, depthUniforms,
                    sceneVars, drawVars, diagnostics, console, projectionVars,
                    loadIdx, lastCreate, fs, call >>

\* A Draw helper selects a texture, loaded or not.
UnitsSetShaderTexture ==
    /\ pc = "RS_Draw"
    /\ \E textureTag \in OccupiedTags \cup {MISSING_TAG} :
          Commit(SetShaderTexture(RenderState, textureTag))
    /\ UNCHANGED << registryVars, glTextures, fboVars, rasterVars, glCurrentProgram,
                    sceneVars, drawVars, diagnostics, console, lightSpaceMatrix,
                    projectionVars, pc, lastCall, loadIdx, lastCreate, fs, call >>

\* RenderScene returns.
UnitsReturn ==
    /\ pc = "RS_Draw"
    /\ pc' = "idle"
    /\ UNCHANGED << registryVars, textureVars, fboVars, rasterVars, shaderVars,
                    sceneVars, drawVars, diagnostics, console, lightSpaceMatrix,
                    projectionVars, lastCall, loadIdx, lastCreate, fs, call >>

NextUnits ==
    \/ UnitsCreateGLTexture
    \/ UnitsBindGLTextures
    \/ UnitsInitShadowMap
    \/ UnitsRenderScene
    \/ UnitsSetShaderTexture
    \/ UnitsReturn

SpecUnits == Init /\ [][NextUnits]_vars

----------------------------------------------------------------------------
(* The material list under any caller: entries are appended, with any tag  *)
(* and coefficients, and looked up by tag.                                 *)

\* How many entries the list may grow to.
MaxMaterials == 3

\* Tags and coefficients a caller appends, and the caller's material before
\* a lookup.
MaterialTags == {DESK_TEXTURE, MUG_TEXTURE}
MaterialValues == {SceneMaterials[1].material, SceneMaterials[3].material}
CallerMaterial == ZeroMaterial

\* m_objectMaterials.push_back(material).
MaterialsPushBack ==
    /\ Len(m_objectMaterials) < MaxMaterials
    /\ \E tag \in MaterialTags, material \in MaterialValues :
          /\ m_objectMaterials' = Append(m_objectMaterials, Tagged(tag, material))
          /\ call' = [name |-> "push_back", tag |-> tag]
    /\ UNCHANGED << registryVars, textureVars, fboVars, rasterVars, shaderVars,
                    m_pDepthShaderManager, depthProgram, loadedMeshes,
                    drawVars, diagnostics,
                    console, lightSpaceMatrix, projectionVars, pc, lastCall,
                    loadIdx, lastCreate, fs >>

\* A call of FindMaterial.
MaterialsFindMaterial ==
    /\ \E tag \in MaterialTags \cup {MISSING_TAG} :
          LET found == FindMaterial(tag, CallerMaterial)
          IN  call' = [name |-> "FindMaterial", tag |-> tag,
                       result |-> found.result, material |-> found.material]
    /\ UNCHANGED << registryVars, textureVars, fboVars, rasterVars, shaderVars,
                    sceneVars, drawVars, diagnostics, console, lightSpaceMatrix,
                    projectionVars, pc, lastCall, loadIdx, lastCreate, fs >>

NextMaterials ==
    \/ MaterialsPushBack
    \/ MaterialsFindMaterial

SpecMaterials == Init /\ [][NextMaterials]_vars

----------------------------------------------------------------------------
(* The uniform-dispatch methods under any caller: after some texture loads *)
(* and, at any time, the insertion of PrepareScene's materials, the        *)
(* methods are called in any order with any argument.                      *)

\* How many textures are loaded before the methods are called.
MaxShaderTextures == 2

\* Arguments of the two model-matrix methods: scale, the three angles and
\* position.  The second has three different angles.
TransformInputs ==
    {<< MUG_HANDLE_SCALE, MUG_HANDLE_ROTATION, MUG_HANDLE_POSITION >>,
     << DESK_SCALE, << 3000000, 4500000, 6000000 >>, DESK_POSITION >>}

ShaderCreateGLTexture ==
    /\ call = NoCall
    /\ m_loadedTextures < MaxShaderTextures
    /\ CreateGLTexture(3, FreshTag)
    /\ UNCHANGED << fboVars, rasterVars, shaderVars, sceneVars, drawVars,
                    diagnostics, lightSpaceMatrix, projectionVars, pc, lastCall,
                    loadIdx, fs, call >>

\* Lines 696-759 of PrepareScene.
ShaderDefineMaterials ==
    /\ m_objectMaterials = << >>
    /\ m_objectMaterials' = m_objectMaterials \o SceneMaterials
    /\ call' = [name |-> "DefineMaterials"]
    /\ UNCHANGED << registryVars, textureVars, fboVars, rasterVars, shaderVars,
                    m_pDepthShaderManager, depthProgram, loadedMeshes,
                    drawVars, diagnostics,
                    console, lightSpaceMatrix, projectionVars, pc, lastCall,
                    loadIdx, lastCreate, fs >>

\* What a uniform-dispatch method leaves unchanged.
ShaderCallFrame ==
    UNCHANGED << registryVars, glTextures, fboVars, rasterVars, glCurrentProgram,
                 sceneVars, drawVars, diagnostics, console, lightSpaceMatrix,
                 projectionVars, pc, lastCall, loadIdx, lastCreate, fs >>

ShaderSetShaderTexture ==
    /\ \E textureTag \in OccupiedTags \cup {MISSING_TAG} :
          /\ Commit(SetShaderTexture(RenderState, textureTag))
          /\ call' = [name |-> "SetShaderTexture", tag |-> textureTag]
    /\ ShaderCallFrame

ShaderSetShaderColor ==
    /\ Commit(SetShaderColor(RenderState, KEY_COLOR[1], KEY_COLOR[2], KEY_COLOR[3], 100000))
    /\ call' = [name |-> "SetShaderColor"]
    /\ ShaderCallFrame

ShaderSetShaderMaterial ==
    /\ \E materialTag \in KnownMaterialTags \cup {MISSING_TAG} :
          /\ Commit(SetShaderMaterial(RenderState, materialTag))
          /\ call' = [name |-> "SetShaderMaterial", tag |-> materialTag]
    /\ ShaderCallFrame

ShaderSetTransformations ==
    /\ \E in \in TransformInputs :
          /\ Commit(SetTransformations(RenderState, in[1], in[2][1], in[2][2], in[2][3], in[3]))
          /\ call' = [name |-> "SetTransformations", in |-> in]
    /\ ShaderCallFrame

ShaderSetModelMatrix ==
    /\ \E in \in TransformInputs :
          /\ Commit(SetModelMatrix(RenderState, in[1], in[2][1], in[2][2], in[2][3], in[3]))
          /\ call' = [name |-> "SetModelMatrix", in |-> in]
    /\ ShaderCallFrame

NextShader ==
    \/ ShaderCreateGLTexture
    \/ ShaderDefineMaterials
    \/ ShaderSetShaderTexture
    \/ ShaderSetShaderColor
    \/ ShaderSetShaderMaterial
    \/ ShaderSetTransformations
    \/ ShaderSetModelMatrix

SpecShader == Init /\ [][NextShader]_vars

----------------------------------------------------------------------------
(* The viewer's projection: a scene prepared with every load succeeding,   *)
(* then frames between which the projection mode and the screen dimensions *)
(* are set and ViewManager::PrepareSceneView runs.                         *)

\* Screen dimensions a caller may pass to SetScreenDimensions.
ScreenSizes == {<< 1000, 800 >>, << 800, 800 >>}

\* Where the movement keys may have taken the camera.
CameraPositions == {VIEW_CAMERA_POSITION, << 400000, 800000, 1300000 >>}

\* The symbolic view matrix of a camera position.
ViewMatrix(position) == << << "view", position >> >>

\* The projection PrepareSceneView builds (lines 259-268): fixed extents of
\* 10, or the camera's Zoom of 80 degrees and the window's 1000 / 800.
ViewProjection(orthographic) ==
    IF orthographic
    THEN Ortho(-1000000, 1000000, -1000000, 1000000, 10000, 10000000)
    ELSE Perspective(8000000, (1000 * 100000) \div 800, 10000, 10000000)

\* PrepareScene's depth program links and its texture files decode.
ViewLoadShadersAndMeshes == PS_LoadShadersAndMeshes /\ depthProgram'.linked

ViewLoadTexture == PS_LoadTexture /\ lastCreate'.result

\* SetProjectionMode as it would be if the projection went to whichever
\* program the depth pass uses.
ViewSetProjectionModeUploadsToDepth ==
    /\ pc = "idle"
    /\ lastCall \in {"PrepareScene", "RenderScene"}
    /\ \E isPerspective \in BOOLEAN :
          LET matrix == ProjectionMatrixFor(isPerspective, m_screenWidth, m_screenHeight)
          IN  /\ m_isPerspectiveProjection' = isPerspective
              /\ m_projectionMatrix' = matrix
              /\ uniforms' = [uniforms EXCEPT !.projection = matrix]
              /\ depthUniforms' = [depthUniforms EXCEPT !.model = matrix]
              /\ call' = [name |-> "SetProjectionMode", isPerspective |-> isPerspective]
    /\ UNCHANGED << registryVars, textureVars, fboVars, rasterVars, glCurrentProgram,
                    sceneVars, drawVars, diagnostics, console,
                    lightSpaceMatrix, m_screenWidth, m_screenHeight,
                    bOrthographicProjection, cameraPosition, pc, lastCall, loadIdx,
                    lastCreate, fs >>

\* void SceneManager::SetProjectionMode(bool isPerspective).
ViewSetProjectionMode ==
    /\ pc = "idle"
    /\ lastCall \in {"PrepareScene", "RenderScene"}
    /\ \E isPerspective \in BOOLEAN :
          LET matrix == ProjectionMatrixFor(isPerspective, m_screenWidth, m_screenHeight)
          IN  /\ m_isPerspectiveProjection' = isPerspective
              /\ m_projectionMatrix' = matrix
              /\ uniforms' = [uniforms EXCEPT !.projection = matrix]
              /\ call' = [name |-> "SetProjectionMode", isPerspective |-> isPerspective]
    /\ UNCHANGED << registryVars, textureVars, fboVars, rasterVars, glCurrentProgram,
                    depthUniforms, sceneVars, drawVars, diagnostics, console,
                    lightSpaceMatrix, m_screenWidth, m_screenHeight,
                    bOrthographicProjection, cameraPosition, pc, lastCall, loadIdx,
                    lastCreate, fs >>

\* void SceneManager::SetScreenDimensions(float width, float height).
ViewSetScreenDimensions ==
    /\ pc = "idle"
    /\ lastCall \in {"PrepareScene", "RenderScene"}
    /\ \E size \in ScreenSizes :
          LET matrix == ProjectionMatrixFor(m_isPerspectiveProjection, size[1], size[2])
          IN  /\ m_screenWidth' = size[1]
              /\ m_screenHeight' = size[2]
              /\ m_projectionMatrix' = matrix
              /\ uniforms' = [uniforms EXCEPT !.projection = matrix]
    /\ UNCHANGED << registryVars, textureVars, fboVars, rasterVars, glCurrentProgram,
                    depthUniforms, sceneVars, drawVars, diagnostics, console,
                    lightSpaceMatrix, m_isPerspectiveProjection,
                    m_projectionMatrix, bOrthographicProjection, cameraPosition, pc,
                    lastCall, loadIdx, lastCreate, fs, call >>

\* void ViewManager::PrepareSceneView(): the keys are polled (P and O set the
\* toggle, the movement keys move the camera), then view, projection and
\* viewPosition are uploaded to the shader manager the scene draws with.
ViewPrepareSceneView ==
    /\ pc = "idle"
    /\ lastCall \in {"PrepareScene", "RenderScene", "RenderDepthPass"}
    /\ \E orthographic \in BOOLEAN, position \in CameraPositions :
          /\ bOrthographicProjection' = orthographic
          /\ cameraPosition' = position
          /\ uniforms' = [uniforms EXCEPT !.view = ViewMatrix(position),
                                          !.projection = ViewProjection(orthographic),
                                          !.viewPosition = position]
    /\ UNCHANGED << registryVars, textureVars, fboVars, rasterVars, glCurrentProgram,
                    depthUniforms, sceneVars, drawVars, diagnostics, console,
                    lightSpaceMatrix, m_isPerspectiveProjection, m_screenWidth,
                    m_screenHeight, m_projectionMatrix, pc, lastCall, loadIdx,
                    lastCreate, fs, call >>

NextView ==
    \/ CallPrepareScene
    \/ ViewLoadShadersAndMeshes
    \/ ViewLoadTexture
    \/ PS_Materials
    \/ PS_BindGLTextures
    \/ PS_Lights
    \/ PS_InitShadowMap
    \/ PS_CheckFramebuffer
    \/ PS_UpdateProjection
    \/ ViewSetProjectionMode
    \/ ViewSetScreenDimensions
    \/ ViewPrepareSceneView
    \/ CallRenderDepthPass
    \/ RDP_Draw
    \/ RDP_Restore
    \/ CallRenderScene
    \/ RS_Draw

SpecView == Init /\ [][NextView]_vars

----------------------------------------------------------------------------
(* The fragment shader, on two fragments that differ only in what the      *)
(* depth map holds at their place.  Colours and depths are in thousandths.  *)

ONE == 10 ^ 3

\* normalize() on the vectors used here, which lie along a coordinate axis.
Normalize(v) ==
    [i \in 1..3 |-> IF v[i] > 0 THEN ONE ELSE IF v[i] < 0 THEN -ONE ELSE 0]

Minus(a, b) == [i \in 1..3 |-> a[i] - b[i]]
Dot(a, b) == (a[1] * b[1] + a[2] * b[2] + a[3] * b[3]) \div ONE
Max(a, b) == IF a >= b THEN a ELSE b
Times(a, b) == (a * b) \div ONE

\* A variant of main() that lights the fragment from the nearer of
\* lightSources[0] and lightSources[1] and tints by the material.
FragmentMainAllLights(in) ==
    IF in.bUseLighting /\ in.numActiveLights > 0
    THEN LET normal == Normalize(in.fragmentVertexNormal)
             lightDir == Normalize(Minus(in.lightPosition, in.fragmentPosition))
             accentDir == Normalize(Minus(in.accentLightPosition, in.fragmentPosition))
             intensity == Max(Max(Dot(normal, lightDir), Dot(normal, accentDir)), 0)
             result == << intensity, (intensity * 9) \div 10, intensity \div 10 >>
             base == IF in.bUseTexture THEN in.texColor ELSE in.objectColor
         IN  << Times(Times(result[1], base[1]), in.materialDiffuseColor[1]),
                Times(Times(result[2], base[2]), in.materialDiffuseColor[2]),
                Times(Times(result[3], base[3]), in.materialDiffuseColor[3]), base[4] >>
    ELSE IF in.bUseTexture THEN in.texColor ELSE in.objectColor

\* main() of the fragment shader: the output colour for inputs in.
FragmentMain(in) ==
    IF in.bUseLighting /\ in.numActiveLights > 0
    THEN LET normal == Normalize(in.fragmentVertexNormal)
             lightDir == Normalize(Minus(in.lightPosition, in.fragmentPosition))
             intensity == Max(Dot(normal, lightDir), 0)
             result == << intensity, (intensity * 9) \div 10, intensity \div 10 >>
             base == IF in.bUseTexture THEN in.texColor ELSE in.objectColor
         IN  << Times(result[1], base[1]), Times(result[2], base[2]),
                Times(result[3], base[3]), base[4] >>
    ELSE IF in.bUseTexture THEN in.texColor ELSE in.objectColor

\* Depth of the fragment as the light sees it, and the depths a depth pass
\* may have written at its place in the map.
FRAGMENT_DEPTH == ONE \div 2
DepthSamples == {ONE \div 5, (4 * ONE) \div 5}

\* The map holds something nearer to the light than the fragment.
Occluded(sample) == sample < FRAGMENT_DEPTH

Colours == {<< ONE, ONE, ONE, ONE >>, << 400, 600, 200, ONE >>}

\* lightSources[1].position and material.diffuseColor as the scene may set
\* them.
AccentLightPositions == {ACCENT_LIGHT_POSITION, << 0, -ONE, 0 >>}
MaterialDiffuseColors == {<< ONE, ONE, ONE >>, << 300, 300, 300 >>}

FragmentInputs ==
    [bUseTexture : BOOLEAN, bUseLighting : BOOLEAN, numActiveLights : {-1, 0, 2},
     objectColor : Colours, texColor : Colours,
     fragmentVertexNormal : {<< 0, ONE, 0 >>, << 0, -ONE, 0 >>, << ONE, 0, 0 >>},
     lightPosition : {DRAMATIC_LIGHT_POSITION},
     accentLightPosition : AccentLightPositions,
     materialDiffuseColor : MaterialDiffuseColors,
     fragmentPosition : {<< 200000, 0, -300000 >>, << 0, 800000, -300000 >>}]

InitFragment ==
    /\ InitProgram
    /\ fs \in [phase : {"inputs"}, in : FragmentInputs,
               depthMap : [1..2 -> DepthSamples]]

\* Both fragments are shaded.  The shader has no sampler for the depth map
\* and no light-space input, so the map cannot enter the computation.
ShadeFragment ==
    /\ fs.phase = "inputs"
    /\ fs' = [phase |-> "shaded", in |-> fs.in, depthMap |-> fs.depthMap,
              out |-> [r \in 1..2 |-> FragmentMain(fs.in)]]
    /\ UNCHANGED << registryVars, textureVars, fboVars, rasterVars, shaderVars,
                    sceneVars, drawVars, diagnostics, console, lightSpaceMatrix,
                    projectionVars, pc, lastCall, loadIdx, lastCreate, call >>

NextFragment == ShadeFragment

SpecFragment == InitFragment /\ [][NextFragment]_vars

----------------------------------------------------------------------------
(* Properties of the texture registry (SpecRegistry).                      *)

Distinct(seq) == \A i, j \in DOMAIN seq : i # j => seq[i] # seq[j]

\* C1: while the tags of the successful loads are pairwise distinct, the
\* k-th successful load (0-based) is found by FindTextureSlot at index k,
\* m_loadedTextures is the number of successful loads, and both lookups
\* return -1 for a tag that was never loaded.
C1_LoadOrderIsSlotOrder ==
    Distinct(loadOrder) =>
        /\ pc # "crashed"
        /\ m_loadedTextures = Len(loadOrder)
        /\ \A k \in DOMAIN loadOrder : FindTextureSlot(loadOrder[k]) = k - 1
        /\ FindTextureSlot(MISSING_TAG) = -1
        /\ FindTextureID(MISSING_TAG) = -1

\* C2: the number of occupied slots never exceeds 16 and every slot write
\* targets an index of the 16-entry table.
C2_WithinCapacity ==
    /\ m_loadedTextures <= TABLE_SIZE
    /\ slotWrite \in -1..(TABLE_SIZE - 1)

\* A step that is a call of CreateGLTexture.
CreateStep == pc = "idle" /\ lastCall' = "CreateGLTexture"

\* C3: a CreateGLTexture call whose file does not decode (outcome 0) or
\* decodes to a channel count other than 3 or 4 returns false and leaves
\* the slot table and m_loadedTextures exactly as before the call.
C3_FailedLoadKeepsRegistry ==
    [][(CreateStep /\ lastCreate'.channels \notin {3, 4}) =>
          /\ lastCreate'.result = FALSE
          /\ m_textureIDs' = m_textureIDs
          /\ overflow' = overflow
          /\ m_loadedTextures' = m_loadedTextures]_vars

\* C3's case: an undecodable file and an unsupported channel count have both
\* been refused by a registry that holds textures.
C3_Witness ==
    /\ lastCall = "CreateGLTexture"
    /\ lastCreate.channels \in {1, 2}
    /\ lastCreate.result = FALSE
    /\ Diag("Failed to load image", "filename") \in console
    /\ m_loadedTextures > 0

\* C4: no two occupied slots carry the same tag.
C4_UniqueTags ==
    \A i, j \in 0..(m_loadedTextures - 1) : i # j => Slot(i).tag # Slot(j).tag

----------------------------------------------------------------------------
(* Properties of the application run (Spec).                               *)

\* BindGLTextures has returned.
AfterBindGLTextures ==
    /\ lastCall # "none"
    /\ pc \notin {"PS_LoadShadersAndMeshes", "LS_getchar", "PS_LoadTextures", "PS_Materials",
                  "PS_BindGLTextures"}

\* C5: from the return of BindGLTextures onward, texture unit i is bound to
\* the handle stored in slot i, for every occupied slot i.
C5_UnitHoldsSlot ==
    AfterBindGLTextures =>
        \A i \in 0..(m_loadedTextures - 1) : glBoundTexture[i] = Slot(i).ID

Occurrences(seq, x) == Cardinality({i \in DOMAIN seq : seq[i] = x})

Range(seq) == {seq[i] : i \in DOMAIN seq}

\* A frame's two passes have both returned.
FrameDone == pc = "idle" /\ lastCall = "RenderScene"

\* C7: in one frame each pass issues 71 mesh draws, and the draws of the two
\* passes match one to one on mesh kind and model matrix (scale, rotation
\* and translation inputs).
C7_PassesDrawSameObjects ==
    FrameDone =>
        /\ Len(depthDraws) = 71
        /\ Len(litDraws) = 71
        /\ \A d \in Range(depthDraws) \cup Range(litDraws) :
              Occurrences(depthDraws, d) = Occurrences(litDraws, d)

\* C7's case: a frame has been rendered, wall included.
C7_Witness ==
    /\ FrameDone
    /\ litDraws # << >>
    /\ depthDraws[Len(depthDraws)].mesh = "box"
    /\ depthDraws[1] # depthDraws[Len(depthDraws)]

\* The state of the shadow subsystem.
ShadowState ==
    IF pc \in {"RDP_Draw", "RDP_Restore"} THEN "DepthPass"
    ELSE IF pc = "RS_Draw" THEN "LitPass"
    ELSE IF pc = "idle" /\ lastCall \in {"PrepareScene", "RenderDepthPass", "RenderScene"}
    THEN "Ready"
    ELSE "Uninitialized"

\* The steps the shadow subsystem may take; the lit pass is entered only
\* with the frame's depth pass as the last call, the depth pass only at the
\* start of a frame.
ShadowStep ==
    \/ ShadowState' = ShadowState
    \/ ShadowState = "Uninitialized" /\ ShadowState' = "Ready"
    \/ /\ ShadowState = "Ready" /\ ShadowState' = "DepthPass"
       /\ lastCall \in {"PrepareScene", "RenderScene"}
    \/ ShadowState = "DepthPass" /\ ShadowState' = "Ready" /\ lastCall' = "RenderDepthPass"
    \/ /\ ShadowState = "Ready" /\ ShadowState' = "LitPass"
       /\ lastCall = "RenderDepthPass" /\ depthDraws # << >>
    \/ ShadowState = "LitPass" /\ ShadowState' = "Ready"

C19_FailedProgramIsAbsent ==
    (m_pDepthShaderManager # 0 /\ ~depthProgram.linked) =>
        /\ \E outcome \in ShaderOutcomes \ {"ok"} : ShaderMessage(outcome) \in diagnostics
        /\ depthProgram.returned = NO_PROGRAM
        /\ depthProgram.m_programID # NO_PROGRAM =>
              glCurrentProgram # depthProgram.m_programID
        /\ depthDraws = << >>

\* RenderDepthPass has returned and nothing was called since.
DepthPassReturned == pc = "idle" /\ lastCall = "RenderDepthPass"

\* C18: when RenderDepthPass has returned the default framebuffer is bound,
\* the cull mode is back-face, and face culling is enabled exactly if it was
\* when the pass was entered.
C18_DepthPassRestoresState ==
    DepthPassReturned =>
        /\ glBoundFramebuffer = 0
        /\ glCullFace = "GL_BACK"
        /\ glCullEnabled = call.cullEnabled

\* C18's case: a depth pass that drew the casters under front-face culling
\* into the shadow framebuffer has returned.
C18_Witness ==
    /\ DepthPassReturned
    /\ Len(depthDraws) > 0
    /\ glViewport = << 0, 0, SHADOW_MAP_SIZE, SHADOW_MAP_SIZE >>
    /\ m_shadowMapFBO # 0
    /\ call.name = "RenderDepthPass"

\* C10: once the shadow framebuffer has come out incomplete, preparation
\* does not reach the state in which the passes can run.
C10_IncompleteNeverReady ==
    (m_shadowMapFBO # 0 /\ ~fbComplete[m_shadowMapFBO]) =>
        ShadowState = "Uninitialized"

\* PrepareScene has returned.
PrepareSceneReturned ==
    /\ lastCall # "none"
    /\ pc \notin {"PS_LoadShadersAndMeshes", "LS_getchar", "PS_LoadTextures", "PS_Materials",
                  "PS_BindGLTextures", "PS_Lights", "PS_InitShadowMap",
                  "PS_CheckFramebuffer", "PS_UpdateProjection"}

----------------------------------------------------------------------------
(* Properties of the material list (SpecMaterials).                        *)

\* Indices (1-based) of the list entries with the tag.
EntriesWith(tag) == {i \in DOMAIN m_objectMaterials : m_objectMaterials[i].tag = tag}

\* The first of them.
FirstEntryWith(tag) == CHOOSE i \in EntriesWith(tag) : \A j \in EntriesWith(tag) : i <= j

\* C14: FindMaterial returns true exactly when the list has an entry with
\* the requested tag, and for an absent tag the caller's material is left as
\* it was, with an empty list and with a non-empty one.
C14_FoundIffPresent ==
    call.name = "FindMaterial" =>
        /\ call.result <=> (EntriesWith(call.tag) # {})
        /\ EntriesWith(call.tag) = {} => call.material = CallerMaterial

\* C15: a lookup of a tag that has entries copies out the coefficients of
\* the first-inserted entry with that tag, and appending an entry never
\* changes what a lookup of a tag that already had an entry copies out.
C15_FirstInsertedWins ==
    /\ []((call.name = "FindMaterial" /\ EntriesWith(call.tag) # {}) =>
             call.material = m_objectMaterials[FirstEntryWith(call.tag)].material)
    /\ [][\A tag \in MaterialTags :
              EntriesWith(tag) # {} =>
                  FindMaterial(tag, CallerMaterial)' = FindMaterial(tag, CallerMaterial)]_vars

\* C15's case: a tag was inserted twice with different coefficients and then
\* looked up.
C15_Witness ==
    /\ call.name = "FindMaterial"
    /\ \E i, j \in EntriesWith(call.tag) :
          /\ i < j
          /\ m_objectMaterials[i].material # m_objectMaterials[j].material
          /\ call.material = m_objectMaterials[i].material

----------------------------------------------------------------------------
(* Properties of the uniform-dispatch methods (SpecShader).                *)

\* C12: a SetShaderTexture call whose tag is not in the texture registry
\* changes no uniform of the main program (bUseTexture and objectTexture
\* included), not the active texture unit and no unit's texture binding.
C12_MissingTextureIsNoOp ==
    [][(call'.name = "SetShaderTexture" /\ FindTextureSlot(call'.tag) = -1) =>
          /\ uniforms' = uniforms
          /\ glActiveTexture' = glActiveTexture
          /\ glBoundTexture' = glBoundTexture]_vars

\* C13: a SetShaderMaterial call whose tag is none of the known material
\* tags leaves the five material uniforms as they were.
C13_UnknownMaterialIsNoOp ==
    [][(call'.name = "SetShaderMaterial" /\ call'.tag \notin KnownMaterialTags) =>
          uniforms'.material = uniforms.material]_vars

\* The material of the case table's else branch (lines 613-620).
DefaultMaterial ==
    Material(DEFAULT_COLOR, STANDARD_AMBIENT_STRENGTH, DEFAULT_COLOR, DEFAULT_COLOR,
             WOOD_SHININESS)

\* C13, amended: a SetShaderMaterial call whose tag is none of the known
\* material tags writes no message and uploads the default material as the
\* five material uniforms; every other uniform keeps its value.
C13_UnknownMaterialGetsDefault ==
    [][(call'.name = "SetShaderMaterial" /\ call'.tag \notin KnownMaterialTags) =>
          /\ uniforms' = [uniforms EXCEPT !.material = DefaultMaterial]
          /\ diagnostics' = diagnostics
          /\ console' = console]_vars

\* C13's case: SetShaderMaterial was called with an unknown tag and replaced
\* a material by the default one.
C13_Witness ==
    /\ call.name = "SetShaderMaterial"
    /\ call.tag \notin KnownMaterialTags
    /\ uniforms.material = DefaultMaterial
    /\ uniforms.material # InitialUniforms.material
    /\ m_objectMaterials # << >>

\* C16: once PrepareScene's materials are in the list, the five
\* coefficients SetShaderMaterial uploads for a tag of the list are the five
\* coefficients of the list's entry for that tag.
C16_UploadEqualsRegistry ==
    (call.name = "SetShaderMaterial" /\ EntriesWith(call.tag) # {}) =>
        uniforms.material = m_objectMaterials[FirstEntryWith(call.tag)].material

\* The product T * Rx * Ry * Rz * S for the arguments in.
ComposedTransform(in) ==
    Translate(in[3]) \o Rotate(in[2][1], << 1, 0, 0 >>) \o Rotate(in[2][2], << 0, 1, 0 >>)
        \o Rotate(in[2][3], << 0, 0, 1 >>) \o ScaleMatrix(in[1])

----------------------------------------------------------------------------
(* Properties of the viewer's projection (SpecView).                       *)

\* C20: when the lit pass issues its mesh draws, the "projection" uniform
\* is the matrix UpdateProjectionMatrix last computed (45 degrees, near 0.1,
\* far 100, aspect = width / height, or half-extent 20 scaled by the
\* aspect); PrepareSceneView has not replaced it by another matrix.
C20_ProjectionIsSceneManagers ==
    pc = "RS_Draw" => uniforms.projection = m_projectionMatrix

----------------------------------------------------------------------------
(* Properties of the texture units (SpecUnits) and of shading              *)
(* (SpecFragment).                                                         *)

\* C6: with 0 to 16 content textures loaded, the unit RenderScene reserves
\* for the shadow map is never the unit SetShaderTexture gives to a content
\* texture: during the lit pass the content sampler differs from the shadow
\* sampler and unit 15 keeps the shadow map.
C6_ShadowUnitReserved ==
    (pc = "RS_Draw" /\ m_loadedTextures <= TABLE_SIZE) =>
        /\ uniforms.objectTexture # uniforms.shadowMap
        /\ glBoundTexture[SHADOW_MAP_SLOT] = m_shadowMap

Brightness(colour) == colour[1] + colour[2] + colour[3]

\* C9: of two fragments equal in everything but the depth map, the one the
\* map marks as occluded comes out darker than the unoccluded one (when the
\* unoccluded one is not black already).
C9_OccludedIsDarker ==
    (/\ fs.phase = "shaded"
     /\ Occluded(fs.depthMap[1]) /\ ~Occluded(fs.depthMap[2])
     /\ Brightness(fs.out[2]) > 0)
        => Brightness(fs.out[1]) < Brightness(fs.out[2])

(* C21: a SetProjectionMode call, with either argument, leaves everything  *)
(* the depth pass reads or writes as it was (the light-space matrix, the   *)
(* depth program and its uniforms, the shadow framebuffer and its          *)
(* binding, the depth draws issued so far), and the draws and depth        *)
(* uniforms a depth pass ends with are those it produces with the          *)
(* projection upload erased.                                               *)
SetProjectionModeStep ==
    /\ call'.name = "SetProjectionMode"
    /\ call' # call \/ m_projectionMatrix' # m_projectionMatrix
                    \/ uniforms' # uniforms

WithoutProjectionUpload == [RenderState EXCEPT !.u.projection = ZeroMatrix]

KeyDraws(draws) ==
    {i \in 1..Len(draws) :
        /\ draws[i].mesh = "box"
        /\ draws[i].model[Len(draws[i].model)] = << "scale", << 38500, 11000, 33000 >> >>}

DrawOrigin(draw) == draw.model[1][2]

KeyGrid == {<< 44000 * c - 231000, 90200, 38500 * r - 110000 >> : r \in 0..4, c \in 0..11}

C22_SixtyKeysOnGrid ==
    FrameDone =>
        \A draws \in {depthDraws, litDraws} :
            /\ Cardinality(KeyDraws(draws)) = 60
            /\ {DrawOrigin(draws[i]) : i \in KeyDraws(draws)} = KeyGrid
            /\ \A i, j \in KeyDraws(draws) :
                  DrawOrigin(draws[i]) = DrawOrigin(draws[j]) => i = j
            /\ \E i, j \in KeyDraws(draws) :
                  /\ DrawOrigin(draws[i]) = << -231000, 90200, -110000 >>
                  /\ DrawOrigin(draws[j]) = << -187000, 90200, -110000 >>

C22_Witness ==
    /\ FrameDone
    /\ \E i \in KeyDraws(litDraws) : DrawOrigin(litDraws[i])[1] = -187000
    /\ \E i \in KeyDraws(depthDraws) : DrawOrigin(depthDraws[i])[1] = -187000


(* C23: after teardown (DestroyGLTextures, then the destructor) every      *)
(* resource the session allocated has been released: no texture object     *)
(* (content or shadow depth texture) and no framebuffer object is left,    *)
(* and the depth ShaderManager allocated by PrepareScene is gone.          *)
C23_TeardownReleasesEverything ==
    pc = "destroyed" =>
        /\ glTextures = {}
        /\ glFramebuffers = {}
        /\ m_pDepthShaderManager = 0


(* C24: the fragment shader outputs the base colour (the texture sample    *)
(* when bUseTexture, else objectColor) unchanged when bUseLighting is false *)
(* or numActiveLights <= 0; otherwise the output rgb is the base rgb times  *)
(* (i, 0.9 i, 0.1 i) with i = max(dot(normal, lightDir), 0) taken from      *)
(* lightSources[0] alone, the output alpha is the base alpha, and neither   *)
(* lightSources[1] nor the material changes the output.                    *)
BaseColour(in) == IF in.bUseTexture THEN in.texColor ELSE in.objectColor

Intensity0(in) ==
    Max(Dot(Normalize(in.fragmentVertexNormal),
            Normalize(Minus(in.lightPosition, in.fragmentPosition))), 0)

LitPassLogged == call.name = "RenderScene"

DrawIndices(steps) == {i \in DOMAIN steps : steps[i] = "Draw"}

\* The positions of the steps of one kind between the previous draw and
\* the draw at index d.
Since(steps, d, kind) ==
    LET back == CHOOSE k \in 1..d :
                    /\ k = d \/ steps[d - k] = "Draw"
                    /\ \A j \in (d - k + 1)..(d - 1) : steps[j] # "Draw"
    IN  {i \in (d - back + 1)..(d - 1) : steps[i] = kind}

Before(A, B) == \A a \in A, b \in B : a < b

C25_FourStepsInOrder ==
    LitPassLogged =>
        /\ call.steps[Len(call.steps)] = "Draw"
        /\ \A d \in DrawIndices(call.steps) :
              LET texture == Since(call.steps, d, "SetShaderTexture")
                  uvScale == Since(call.steps, d, "SetTextureUVScale")
                  material == Since(call.steps, d, "SetShaderMaterial")
                  transform == Since(call.steps, d, "SetTransformations")
              IN  /\ Cardinality(texture) = 1 /\ Cardinality(uvScale) = 1
                  /\ Cardinality(material) = 1 /\ Cardinality(transform) = 1
                  /\ Before(texture, uvScale) /\ Before(uvScale, material)
                  /\ Before(material, transform)

(* C25, amended: for every mesh draw of the lit pass there is exactly one  *)
(* transform upload since the previous mesh draw and the draw comes last;  *)
(* texture, UV-scale and material selection occur at most once each since  *)
(* the previous draw and, where present, texture precedes UV scale, UV     *)
(* scale precedes material, and texture and UV scale precede the           *)
(* transform.                                                              *)
C25_TransformOncePerDraw ==
    LitPassLogged =>
        /\ call.steps[Len(call.steps)] = "Draw"
        /\ \A d \in DrawIndices(call.steps) :
              LET texture == Since(call.steps, d, "SetShaderTexture")
                  uvScale == Since(call.steps, d, "SetTextureUVScale")
                  material == Since(call.steps, d, "SetShaderMaterial")
                  transform == Since(call.steps, d, "SetTransformations")
              IN  /\ Cardinality(transform) = 1
                  /\ Cardinality(texture) <= 1 /\ Cardinality(uvScale) <= 1
                  /\ Cardinality(material) <= 1
                  /\ Before(texture, uvScale) /\ Before(uvScale, material)
                  /\ Before(texture, material)
                  /\ Before(texture, transform) /\ Before(uvScale, transform)

\* C25's case: a lit pass has run; one of its draws has no UV-scale step
\* since the previous draw and one has its material after its transform.
C25_Witness ==
    /\ LitPassLogged
    /\ Cardinality(DrawIndices(call.steps)) = 71
    /\ \E d \in DrawIndices(call.steps) :
          /\ Since(call.steps, d, "SetShaderTexture") # {}
          /\ Since(call.steps, d, "SetTextureUVScale") = {}
    /\ \E d \in DrawIndices(call.steps) :
          ~Before(Since(call.steps, d, "SetShaderMaterial"),
                  Since(call.steps, d, "SetTransformations"))


(* C26: when glCheckFramebufferStatus is evaluated during shadow-map       *)
(* initialisation the bound framebuffer is m_shadowMapFBO, and an           *)
(* incomplete shadow framebuffer has produced the diagnostic once the      *)
(* check is done.                                                          *)
C26_CheckInspectsShadowFramebuffer ==
    /\ pc = "PS_CheckFramebuffer" => glBoundFramebuffer = m_shadowMapFBO
    /\ (pc = "PS_UpdateProjection" /\ ~fbComplete[m_shadowMapFBO]) =>
           FramebufferMessage \in diagnostics


(* C27: RenderDepthPass leaves the viewport as it found it: when the pass   *)
(* has returned, and while the lit pass that follows it draws, the         *)
(* viewport is the one in effect when the depth pass was entered.          *)
C27_DepthPassKeepsViewport ==
    (call.name = "RenderDepthPass" /\ (DepthPassReturned \/ pc = "RS_Draw")) =>
        glViewport = call.viewport


(* C28: a CreateGLTexture call that returns false leaves the GPU state as  *)
(* it was: the set of texture objects is the one before the call and the   *)
(* texture bound to the active unit is the one bound before the call.      *)
C28_FailedLoadKeepsGPUState ==
    [][(CreateStep /\ ~lastCreate'.result) =>
          /\ glTextures' = glTextures
          /\ glActiveTexture' = glActiveTexture
          /\ glBoundTexture'[glActiveTexture] = glBoundTexture[glActiveTexture]]_vars


(* C29: whichever texture loads failed, the uniform and texture state in   *)
(* effect at the j-th mesh draw of RenderScene is the same in every frame  *)
(* as at the j-th draw of the first frame.                                 *)
C29_DrawStateSameEveryFrame ==
    call.name = "RenderScene" => call.snaps = call.first


(* C30: LoadShaders never waits for external input: whatever the files    *)
(* and the compile and link outcomes, no call of it is ever stopped at a   *)
(* read of standard input.                                                 *)
C30_LoadShadersNeverWaits == pc # "LS_getchar"


====
